---- MODULE Spec2Model ----
(***************************************************************************)
(* Meteo-Chat MCP server: cache and rate limiter (utils.ts), executor      *)
(* (executor.ts), sampler (aggregator.ts) and planner (planner.ts).        *)
(*                                                                         *)
(* Time is Date.now() in milliseconds.  Coordinates are integers counting  *)
(* ten-thousandths of a degree, so that a value with a fourth decimal and  *)
(* its rounding to three decimals (toFixed(3)) are different things.       *)
(***************************************************************************)
EXTENDS Integers, Sequences, FiniteSets, TLC

VARIABLES
    now,        \* Date.now()
    ticks,      \* number of Idle steps taken (bounds the clock)
    lastByKey,  \* RateLimiter.lastByKey : Map<string, number>
    weaCache,   \* globalThis.__WEA_CACHE__ store : Map<string, {v, exp}>
    omCache,    \* OM_CACHE store : Map<string, {v, exp}>
    fr,         \* per caller: the frame of RateLimiter.wait / fetchJSONWithCache
    serial,     \* the number of upstream requests issued so far
    upstream,   \* history: the upstream requests of each caller's latest call
    sent,       \* history: per URL, the number of upstream requests issued
    stored,     \* history: per URL, the response last stored and when
    calls,      \* history: per URL, the direct fetches finished, by kind
    lastFetch,  \* history: the fetchJSONWithCache call that finished last
    waitLog,    \* history: the direct RateLimiter.wait calls that have returned
    ex,         \* per caller: the frame of executePlan
    lastExec,   \* history: the executePlan call that finished last
    runs,       \* history: the number of executePlan calls finished
    execLog,    \* history: the executePlan calls finished, in order
    trace,      \* history: the getOMPoint calls of the latest executePlan call
    gridIn,     \* adaptiveGrid: the bounding box passed
    gridOut,    \* adaptiveGrid: the list returned
    planIn,     \* planQuery: the request passed
    planOut,    \* planQuery: the plan returned, or the error thrown
    memCache,   \* capabilities.ts memCache : { value, expires } | null
    probes,     \* history: the refreshFromOpenMeteo probes issued
    descOut,    \* history: what the last describeCapabilities call returned
    pq,         \* per caller: the frame of planQuery / describeCapabilities
    statIn,     \* quantile / summarizeHourUTC: the arguments passed
    statOut,    \* quantile / summarizeHourUTC: what each returned
    epoch       \* the day number (days since 1970-01-01) on which the clock read 0

utilVars == <<now, ticks, lastByKey, weaCache, omCache, fr>>

histVars == <<serial, upstream, sent, stored, calls, lastFetch, waitLog>>

execVars == <<ex, lastExec, runs, execLog, trace>>

pureVars == <<gridIn, gridOut, planIn, planOut, memCache, probes, descOut, pq, epoch,
              statIn, statOut>>

vars == <<utilVars, histVars, execVars, pureVars>>

----------------------------------------------------------------------------
(* Bounds of the model *)

StartNow == 1000000000
MaxTicks == 2
NumCallers == 2
MaxWaitCalls == 4
MaxFetchCalls == 3
MaxRuns == 2
TimerSlack == 3
Latency == 250

(* Program constants *)

MinGapMs == 1000
ForecastTTL == 60000
ArchiveTTL == 86400000

Callers == 1..NumCallers

\* The durations the clock may advance by while no call is in progress.
Deltas == {1, MinGapMs, ForecastTTL}

\* The clock may tick between two consecutive reads of Date.now().
Gaps == {0, 1}

\* A timer fires when due or TimerSlack later; a request takes Latency.
Lateness == {0, TimerSlack}

Max(a, b) == IF a >= b THEN a ELSE b

----------------------------------------------------------------------------
(* Map<K, V> as a function with a growing domain *)

EmptyMap == [k \in {} |-> 0]

MapSet(m, k, v) == [x \in (DOMAIN m) \cup {k} |-> IF x = k THEN v ELSE m[x]]

MapDelete(m, k) == [x \in (DOMAIN m) \ {k} |-> m[x]]

----------------------------------------------------------------------------
(* MemoryCache *)

\* `undefined`; upstream bodies carry serial >= 1
Undefined == [serial |-> 0, times |-> FALSE]

\* has(k) and get(k) both delete an entry they find expired.
CacheLive(store, k, t) == k \in DOMAIN store /\ ~(t > store[k].exp)

CacheEvict(store, k, t) ==
    IF k \in DOMAIN store /\ t > store[k].exp THEN MapDelete(store, k) ELSE store

CacheHas(store, k, t) == CacheLive(store, k, t)

CacheGet(store, k, t) == IF CacheLive(store, k, t) THEN store[k].v ELSE Undefined

CacheSet(store, k, v, ttlMs, t) == MapSet(store, k, [v |-> v, exp |-> t + ttlMs])

----------------------------------------------------------------------------
(* RateLimiter *)

RLKeys == {"open-meteo", "default"}

\* lastByKey.get(key) ?? 0
RLLast(key) == IF key \in DOMAIN lastByKey THEN lastByKey[key] ELSE 0

\* Math.max(0, minGapMs - (now - last))
RLWaitMs(key, t) == Max(0, MinGapMs - (t - RLLast(key)))

\* lastByKey.set(key, Date.now()); `calledAt` is the clock read on entry.
RLStampAtEntry(key, t, calledAt) == MapSet(lastByKey, key, calledAt)

RLStamp(key, t, calledAt) == MapSet(lastByKey, key, t)

----------------------------------------------------------------------------
(* URLs and frames *)

NoDate == [y |-> 0, m |-> 0, d |-> 0]

NoUrl == [endpoint |-> "none", lat |-> 0, lon |-> 0, hourly |-> <<>>,
          start |-> NoDate, end |-> NoDate]

\* op: "wait" (RateLimiter.wait called directly) or "fetch" (fetchJSONWithCache);
\* top: called directly, not from getOMPoint; req: index of its upstream request.
\* within, expected, nsent, weaAtCall, omAtCall are history: whether the call was
\* made within the TTL of the response last stored for its URL, that response,
\* the requests the call has issued, and the two stores as the call found them.
NoResp == [kind |-> "none", status |-> 0, json |-> FALSE]

IdleFrame == [op |-> "idle", pc |-> "idle", top |-> TRUE, url |-> NoUrl, ttl |-> 0,
              rl |-> FALSE, rlKey |-> "default", calledAt |-> 0, wakeAt |-> 0,
              val |-> Undefined, req |-> 0, resp |-> NoResp,
              within |-> FALSE, expected |-> Undefined, nsent |-> 0,
              weaAtCall |-> EmptyMap, omAtCall |-> EmptyMap]

CacheKey(url) == url   \* `json:${url}`

Busy(c) == fr[c].pc \notin {"idle", "ret", "thrown"}

AllIdle == \A c \in Callers : fr[c].pc = "idle"

\* The upstream outcomes: a transport failure (undici rejects), or a response
\* with a status and a body that parses as JSON or does not.
Statuses == {200, 302, 400}

Outcomes == {[kind |-> "transport", status |-> 0, json |-> FALSE],
             [kind |-> "response", status |-> 200, json |-> FALSE]}
            \cup {[kind |-> "response", status |-> s, json |-> TRUE] : s \in Statuses}

\* The parsed body has a non-empty hourly.time list; every outcome above has.
HasTimes(o) == IF "times" \in DOMAIN o THEN o.times ELSE TRUE

\* if (status >= 400) throw
IsFailureStatus(status) == status >= 400

----------------------------------------------------------------------------
(* aggregator.ts: adaptiveGrid *)

Abs(x) == IF x < 0 THEN -x ELSE x

\* One degree, in the model's unit of a ten-thousandth of a degree.
Deg == 10000

\* a * b for 0 <= a, b < 10^7 as <<hi, lo>> with a * b = hi * 10^6 + lo and
\* lo < 10^6: the product itself does not fit 32-bit integers.
Mul(a, b) ==
    LET ah == a \div 1000   al == a % 1000
        bh == b \div 1000   bl == b % 1000
        m  == ah * bl + al * bh
        l0 == (m % 1000) * 1000 + al * bl
    IN  <<ah * bh + (m \div 1000) + (l0 \div 1000000), l0 % 1000000>>

PairGT(x, y) == x[1] > y[1] \/ (x[1] = y[1] /\ x[2] > y[2])

\* dLat * dLon * 111 * 111 > 2e6 and > 5e4 (km^2), for dLat, dLon in units:
\* dLat * dLon > 2e6 * 10^8 / 12321 = 16232448664.8.. and
\* dLat * dLon > 5e4 * 10^8 / 12321 = 405811216.6..
BigAreaHi == 16232
BigAreaLo == 448664
MidAreaHi == 405
MidAreaLo == 811216

GridStep(dLat, dLon) ==
    IF PairGT(Mul(dLat, dLon), <<BigAreaHi, BigAreaLo>>) THEN 2 * Deg
    ELSE IF PairGT(Mul(dLat, dLon), <<MidAreaHi, MidAreaLo>>) THEN Deg
    ELSE Deg \div 2

Round2(x) == (IF x < 0 THEN -1 ELSE 1) * (((Abs(x) + 50) \div 100) * 100)

\* +x.toFixed(3): the nearest multiple of a thousandth of a degree
Round3(x) == (IF x < 0 THEN -1 ELSE 1) * (((Abs(x) + 5) \div 10) * 10)

GridCap == 150

\* pts.slice(0, n)
Slice(s, n) == SubSeq(s, 1, IF Len(s) < n THEN Len(s) ELSE n)

RECURSIVE LonLoopExclusive(_, _, _, _)
LonLoopExclusive(lat, lon, maxLon, step) ==
    IF lon < maxLon
    THEN <<[lat |-> Round3(lat), lon |-> Round3(lon)]>>
         \o LonLoopExclusive(lat, lon + step, maxLon, step)
    ELSE <<>>

\* for (let lon = minLon; lon <= maxLon; lon += step) pts.push(...)
RECURSIVE LonLoop(_, _, _, _)
LonLoop(lat, lon, maxLon, step) ==
    IF lon <= maxLon
    THEN <<[lat |-> Round3(lat), lon |-> Round3(lon)]>>
         \o LonLoop(lat, lon + step, maxLon, step)
    ELSE <<>>

\* for (let lat = minLat; lat <= maxLat; lat += step) { ... }
RECURSIVE LatLoop(_, _, _, _, _)
LatLoop(lat, maxLat, minLon, maxLon, step) ==
    IF lat <= maxLat
    THEN LonLoop(lat, minLon, maxLon, step)
         \o LatLoop(lat + step, maxLat, minLon, maxLon, step)
    ELSE <<>>

\* The list before the guardrail: bbox = <<minLat, minLon, maxLat, maxLon>>
GridWalk(bbox) ==
    LatLoop(bbox[1], bbox[3], bbox[2], bbox[4],
            GridStep(Abs(bbox[3] - bbox[1]), Abs(bbox[4] - bbox[2])))

AdaptiveGridUncapped(bbox) == GridWalk(bbox)

AdaptiveGrid(bbox) == Slice(GridWalk(bbox), GridCap)

----------------------------------------------------------------------------
(* History *)

MapGet(m, k, default) == IF k \in DOMAIN m THEN m[k] ELSE default

\* Whether time t is within the TTL of the response last stored for url.
WithinTTL(url, t) ==
    url \in DOMAIN stored /\ t <= stored[url].at + stored[url].ttl

NoCalls == [within |-> 0, outside |-> 0]

RECURSIVE SumCalls(_)
SumCalls(urls) ==
    IF urls = {} THEN 0
    ELSE LET u == CHOOSE x \in urls : TRUE IN
         calls[u].within + calls[u].outside + SumCalls(urls \ {u})

\* The fetchJSONWithCache calls made so far, finished or not.
NumFetches == SumCalls(DOMAIN calls) + Cardinality({c \in Callers : fr[c].op = "fetch"})

Counted(f) ==
    LET n == MapGet(calls, f.url, NoCalls) IN
    MapSet(calls, f.url,
           IF f.within THEN [n EXCEPT !.within = @ + 1] ELSE [n EXCEPT !.outside = @ + 1])

FetchEntry(c, f, outcome, val, t, wea) ==
    [url |-> f.url, by |-> c, top |-> f.top, ttl |-> f.ttl, calledAt |-> f.calledAt,
     at |-> t, outcome |-> outcome, val |-> val, resp |-> f.resp,
     within |-> f.within, withinAtEnd |-> WithinTTL(f.url, t),
     expected |-> f.expected, nsent |-> f.nsent,
     weaAtCall |-> f.weaAtCall, omAtCall |-> f.omAtCall,
     weaAfter |-> wea, omAfter |-> omCache]

NoFetch == FetchEntry(1, IdleFrame, "none", Undefined, 0, EmptyMap)

----------------------------------------------------------------------------
(* The clock while no call is in progress *)

Idle(d) ==
    /\ AllIdle
    /\ \A c \in Callers : ex[c].pc \in {"idle"}
    /\ ticks < MaxTicks
    /\ now' = now + d
    /\ ticks' = ticks + 1
    /\ UNCHANGED <<lastByKey, weaCache, omCache, fr, histVars, execVars, pureVars>>

----------------------------------------------------------------------------
(* RateLimiter.wait and fetchJSONWithCache *)

WaitEntry(c, f, t, slept) ==
    [key |-> f.rlKey, by |-> c, calledAt |-> f.calledAt, at |-> t, slept |-> slept]

\* The wait of frame f is over at time t: lastByKey.set(key, Date.now()).  A
\* direct call returns; a fetch goes on to issue its request.
EndWait(c, f, t, slept) ==
    /\ lastByKey' = RLStamp(f.rlKey, t, f.calledAt)
    /\ IF f.op = "wait"
       THEN /\ fr' = [fr EXCEPT ![c] = IdleFrame]
            /\ waitLog' = Append(waitLog, WaitEntry(c, f, t, slept))
            /\ UNCHANGED <<serial, upstream, sent>>
       ELSE /\ fr' = [fr EXCEPT ![c] = [f EXCEPT !.pc = "request", !.req = serial + 1,
                                                 !.nsent = @ + 1]]
            /\ serial' = serial + 1
            /\ upstream' = Append(upstream, [url |-> f.url, at |-> t, by |-> c,
                                             stamped |-> TRUE, rlKey |-> f.rlKey])
            /\ sent' = MapSet(sent, f.url, MapGet(sent, f.url, 0) + 1)
            /\ UNCHANGED waitLog

\* rl.wait(rlKey) from its entry to its first await.
BeginWait(c, f) ==
    LET w == RLWaitMs(f.rlKey, now) IN
    IF w > 0
    THEN /\ fr' = [fr EXCEPT ![c] = [f EXCEPT !.pc = "sleep", !.wakeAt = now + w]]
         /\ UNCHANGED <<lastByKey, serial, upstream, sent, waitLog>>
    ELSE EndWait(c, f, now, FALSE)

\* RateLimiter.wait(key), called directly.
WaitCall(c, key) ==
    /\ fr[c].pc = "idle"
    /\ Len(waitLog) + Cardinality({d \in Callers : fr[d].op = "wait"}) < MaxWaitCalls
    /\ BeginWait(c, [IdleFrame EXCEPT !.op = "wait", !.rl = TRUE, !.rlKey = key,
                                      !.calledAt = now])
    /\ UNCHANGED <<now, ticks, weaCache, omCache, stored, calls, lastFetch>>
    /\ UNCHANGED <<execVars, pureVars>>

\* setTimeout(r, wait) fires, `late` after it was due.
TimerFires(c, late) ==
    /\ fr[c].pc = "sleep"
    /\ now' = Max(now, fr[c].wakeAt) + late
    /\ EndWait(c, fr[c], now', TRUE)
    /\ UNCHANGED <<ticks, weaCache, omCache, stored, calls, lastFetch>>
    /\ UNCHANGED <<execVars, pureVars>>

\* A fetch is over: a direct call leaves its frame, a call from getOMPoint
\* keeps the outcome for the executor's continuation.
Finished(f, pc, val) ==
    IF f.top THEN IdleFrame ELSE [f EXCEPT !.pc = pc, !.val = val]

\* fetchJSONWithCache(url, {ttlMs, rl, rlKey}) from its entry to its first
\* await, or to the get that follows a has that was true.
BeginFetch(c, f) ==
    LET key == CacheKey(f.url) IN
    IF CacheHas(weaCache, key, now)
    THEN /\ fr' = [fr EXCEPT ![c] = [f EXCEPT !.pc = "get"]]
         /\ UNCHANGED <<weaCache, lastByKey, serial, upstream, sent, waitLog>>
    ELSE /\ weaCache' = CacheEvict(weaCache, key, now)
         /\ IF f.rl
            THEN BeginWait(c, f)
            ELSE /\ fr' = [fr EXCEPT ![c] = [f EXCEPT !.pc = "request",
                                                      !.req = serial + 1, !.nsent = @ + 1]]
                 /\ serial' = serial + 1
                 /\ upstream' = Append(upstream, [url |-> f.url, at |-> now, by |-> c,
                                                  stamped |-> FALSE, rlKey |-> ""])
                 /\ sent' = MapSet(sent, f.url, MapGet(sent, f.url, 0) + 1)
                 /\ UNCHANGED <<lastByKey, waitLog>>

NewFetchFrame(url, ttl, rl, rlKey, top) ==
    [IdleFrame EXCEPT !.op = "fetch", !.top = top, !.url = url, !.ttl = ttl,
                      !.rl = rl, !.rlKey = rlKey, !.calledAt = now,
                      !.within = WithinTTL(url, now),
                      !.expected = IF url \in DOMAIN stored THEN stored[url].v
                                                            ELSE Undefined,
                      !.weaAtCall = weaCache, !.omAtCall = omCache]

\* fetchJSONWithCache called directly.
FetchCall(c, url, ttl, rl, rlKey) ==
    /\ fr[c].pc = "idle"
    /\ NumFetches < MaxFetchCalls
    /\ BeginFetch(c, NewFetchFrame(url, ttl, rl, rlKey, TRUE))
    /\ UNCHANGED <<now, ticks, omCache, stored, calls, lastFetch, execVars, pureVars>>

\* return cache.get(key), after cache.has(key) was true: get reads the clock
\* again, which may have ticked.
FetchGet(c, gap) ==
    /\ fr[c].pc = "get"
    /\ now' = now + gap
    /\ LET key == CacheKey(fr[c].url)
           v == CacheGet(weaCache, key, now') IN
       /\ weaCache' = CacheEvict(weaCache, key, now')
       /\ lastFetch' = FetchEntry(c, fr[c], "hit", v, now', weaCache')
       /\ fr' = [fr EXCEPT ![c] = Finished(fr[c], "ret", v)]
    /\ calls' = Counted(fr[c])
    /\ UNCHANGED <<ticks, lastByKey, omCache, serial, upstream, sent, stored, waitLog>>
    /\ UNCHANGED <<execVars, pureVars>>

\* The upstream request of a fetch ends with outcome o after `latency`.
Respond(c, o, latency) ==
    /\ fr[c].pc = "request"
    /\ now' = now + latency
    /\ LET f == [fr[c] EXCEPT !.resp = o]
           body == [serial |-> f.req, times |-> HasTimes(o)] IN
       IF o.kind = "transport" \/ IsFailureStatus(o.status) \/ ~o.json
       THEN /\ weaCache' = weaCache
            /\ stored' = stored
            /\ lastFetch' = FetchEntry(c, f, "thrown", Undefined, now', weaCache')
            /\ fr' = [fr EXCEPT ![c] = Finished(f, "thrown", Undefined)]
       ELSE /\ weaCache' = CacheSet(weaCache, CacheKey(f.url), body, f.ttl, now')
            /\ stored' = MapSet(stored, f.url, [v |-> body, at |-> now', ttl |-> f.ttl])
            /\ lastFetch' = FetchEntry(c, f, "fetched", body, now', weaCache')
            /\ fr' = [fr EXCEPT ![c] = Finished(f, "ret", body)]
    /\ calls' = Counted(fr[c])
    /\ UNCHANGED <<ticks, lastByKey, omCache, serial, upstream, sent, waitLog>>
    /\ UNCHANGED <<execVars, pureVars>>

----------------------------------------------------------------------------
(* Calendar dates of the clock: new Date(), setUTCFullYear, toISOString *)

DayMs == 24 * 60 * 60 * 1000

IsLeap(y) == (y % 4 = 0 /\ y % 100 # 0) \/ y % 400 = 0

\* The day number of the UTC calendar date y-m-d, the inverse of CivilFromDays.
DaysFromCivil(y, m, d) ==
    LET yy  == IF m <= 2 THEN y - 1 ELSE y
        era == yy \div 400
        yoe == yy - era * 400
        mp  == IF m > 2 THEN m - 3 ELSE m + 9
        doy == (153 * mp + 2) \div 5 + d - 1
        doe == yoe * 365 + yoe \div 4 - yoe \div 100 + doy
    IN  era * 146097 + doe - 719468

\* The UTC calendar date of day number z (days since 1970-01-01).
CivilFromDays(z) ==
    LET zz  == z + 719468
        era == zz \div 146097
        doe == zz - era * 146097
        yoe == (doe - doe \div 1460 + doe \div 36524 - doe \div 146096) \div 365
        doy == doe - (365 * yoe + yoe \div 4 - yoe \div 100)
        mp  == (5 * doy + 2) \div 153
        d   == doy - (153 * mp + 2) \div 5 + 1
        m   == IF mp < 10 THEN mp + 3 ELSE mp - 9
    IN  [y |-> yoe + era * 400 + (IF m <= 2 THEN 1 ELSE 0), m |-> m, d |-> d]

\* new Date().toISOString().slice(0, 10) at clock t
ISODate(t) == CivilFromDays(epoch + t \div DayMs)

\* d.setUTCFullYear(y): 29 February of a year that has none becomes 1 March.
SetUTCFullYear(date, y) ==
    IF date.m = 2 /\ date.d = 29 /\ ~IsLeap(y)
    THEN [y |-> y, m |-> 3, d |-> 1]
    ELSE [date EXCEPT !.y = y]

----------------------------------------------------------------------------
(* executor.ts *)

NoRange == [start |-> NoDate, end |-> NoDate]

\* HIST_RANGE
HistRange(t, years) ==
    [start |-> SetUTCFullYear(ISODate(t), ISODate(t).y - years), end |-> ISODate(t)]

\* plan.options?.historical_years ?? (historical_depth === "deep" ? 10 : 1);
\* options.years is <<>> or <<n>>.
PlanYearsDepthFirst(plan) ==
    IF plan.options.depth = "deep" THEN 10
    ELSE IF plan.options.years # <<>> THEN plan.options.years[1] ELSE 1

PlanYears(plan) ==
    IF plan.options.years # <<>> THEN plan.options.years[1]
    ELSE IF plan.options.depth = "deep" THEN 10 ELSE 1

RECURSIVE Canonicals(_)
Canonicals(items) ==
    IF items = <<>> THEN <<>>
    ELSE (IF Head(items).canonical # "" /\ Head(items).provider = "open-meteo"
          THEN <<Head(items).canonical>> ELSE <<>>) \o Canonicals(Tail(items))

\* plan.items.filter(i => i.canonical && i.provider === "open-meteo").map(i => i.canonical)
PlanVars(plan) == Canonicals(plan.items)

\* hourlyVars.slice().sort().join(","): the list up to its order
SortedJoin(hourlyVars) ==
    [v \in {hourlyVars[i] : i \in DOMAIN hourlyVars} |->
        Cardinality({i \in DOMAIN hourlyVars : hourlyVars[i] = v})]

\* x.toFixed(3), a string: "-" for every x < 0, also one that rounds to zero,
\* then the digits of |x| rounded to the thousandth
ToFixed3(x) == [sign |-> IF x < 0 THEN "-" ELSE "", digits |-> Round3(Abs(x))]

\* The key of getOMPoint in OM_CACHE
OMKey(hist, lat, lon, hourlyVars, range) ==
    [mode |-> IF hist THEN "historical" ELSE "forecast",
     lat |-> ToFixed3(lat), lon |-> ToFixed3(lon),
     vars |-> SortedJoin(hourlyVars), tz |-> "auto",
     range |-> IF hist THEN range ELSE NoRange]

\* urlForecast / urlArchive
OMUrl(hist, lat, lon, hourlyVars, range) ==
    [endpoint |-> IF hist THEN "archive" ELSE "forecast", lat |-> lat, lon |-> lon,
     hourly |-> hourlyVars,
     start |-> IF hist THEN range.start ELSE NoDate,
     end |-> IF hist THEN range.end ELSE NoDate]

OMTtlShort(hist) == ForecastTTL

\* mode === "forecast" ? 60_000 : 24 * 60 * 60 * 1000
OMTtl(hist) == IF hist THEN ArchiveTTL ELSE ForecastTTL

OMLimiterOff == [rl |-> FALSE, rlKey |-> "default"]

\* rl: RL, rlKey: "open-meteo"
OMLimiter == [rl |-> TRUE, rlKey |-> "open-meteo"]

NoPlan == [geom |-> [type |-> "none", lat |-> <<>>, lon |-> <<>>, bbox |-> <<>>],
           time_mode |-> "forecast", items |-> <<>>,
           options |-> [years |-> <<>>, depth |-> ""]]

NoClimatologies == [present |-> FALSE, list |-> <<>>]

NoResult == [mode |-> "none", variables |-> <<>>, n |-> 0, window |-> <<>>,
             limitations |-> <<>>, climatologies |-> NoClimatologies,
             endpoint |-> ""]

IdleExec == [pc |-> "idle", plan |-> NoPlan, vars |-> <<>>, hist |-> FALSE, years |-> 0,
             range |-> NoRange, pts |-> <<>>, i |-> 0, key |-> <<>>, rows |-> <<>>,
             lats |-> <<>>, hits |-> 0, rowsByVar |-> EmptyMap, utcOffsets |-> <<>>]

NoExec == [status |-> "none", error |-> "", by |-> 0, plan |-> NoPlan,
           result |-> NoResult, omAtFail |-> EmptyMap, omAfter |-> EmptyMap,
           years |-> 0, hits |-> 0]

\* What the history keeps of a finished call
RunEntry(e) == [by |-> e.by, plan |-> e.plan, status |-> e.status, result |-> e.result]

LimitationSingleYear(x) ==
    IF x.hist THEN [text |-> "historical_single_year", years |-> 0]
    ELSE IF x.plan.geom.type = "Point" THEN [text |-> "point_forecast", years |-> 0]
                                       ELSE [text |-> "region_forecast", years |-> 0]

\* limitations.push(...): in historical mode one of two texts by years > 1, the
\* first with the number of years in it; else one by the geometry
Limitation(x) ==
    IF x.hist
    THEN IF x.years > 1 THEN [text |-> "historical_years", years |-> x.years]
                        ELSE [text |-> "historical_single_year", years |-> 0]
    ELSE IF x.plan.geom.type = "Point" THEN [text |-> "point_forecast", years |-> 0]
                                       ELSE [text |-> "region_forecast", years |-> 0]

\* times.length: point mode reads hourly.time of the one response, region
\* mode that of the first response that has one.
TimesLength(x) == \E i \in DOMAIN x.rows : x.rows[i].times

\* modeIsHistorical && times.length ? vars.map(...) : undefined; a block is
\* written as its variable and the number of rows climateBlocks is given.
Climatologies(x) ==
    IF x.hist /\ TimesLength(x)
    THEN [present |-> TRUE,
          list |-> [k \in DOMAIN x.vars |->
                      [variable |-> x.vars[k],
                       rows |-> IF x.plan.geom.type = "Point" THEN 1
                                ELSE Len(x.rowsByVar[x.vars[k]])]]]
    ELSE NoClimatologies

LimitationsNone(x) == <<>>

\* const limitations = []; one push in either branch
Limitations(x) == <<Limitation(x)>>

\* The value executePlan returns from frame x.
ExecResult(x) ==
    [mode |-> IF x.plan.geom.type = "Point" THEN "point" ELSE "region",
     variables |-> x.vars, n |-> Len(x.pts),
     window |-> IF x.hist THEN <<x.range>> ELSE <<>>,
     limitations |-> Limitations(x),
     climatologies |-> Climatologies(x),
     endpoint |-> IF x.hist THEN "archive/hourly" ELSE "forecast/hourly"]

TraceEntry(ev, c, x, ok) ==
    [ev |-> ev, by |-> c, i |-> x.i, lat |-> x.pts[x.i].lat, lon |-> x.pts[x.i].lon,
     ok |-> ok]

\* The requests of caller c's earlier calls leave the history.
Forget(c) == SelectSeq(upstream, LAMBDA e : e.by # c)

\* lat == null || lon == null
PointMissing(geom) == geom.lat = <<>> \/ geom.lon = <<>>

PointPtsPerVariable(plan) ==
    [k \in 1..Len(PlanVars(plan)) |-> [lat |-> plan.geom.lat[1], lon |-> plan.geom.lon[1]]]

\* Point mode: the one coordinate getOMPoint is called with.
PointPts(plan) == <<[lat |-> plan.geom.lat[1], lon |-> plan.geom.lon[1]]>>

RejectAfterWait(c, plan, years) ==
    /\ lastExec' = [NoExec EXCEPT !.status = "failed", !.by = c,
                                  !.error = "point_missing_latlon", !.plan = plan,
                                  !.years = years]
    /\ runs' = runs + 1
    /\ execLog' = Append(execLog, RunEntry(lastExec'))
    /\ ex' = ex
    /\ lastByKey' = MapSet(lastByKey, "open-meteo", now)
    /\ UNCHANGED <<now, ticks, weaCache, omCache, fr, serial, sent>>

\* throw new Error("point_missing_latlon"), before anything is awaited
Reject(c, plan, years) ==
    /\ lastExec' = [NoExec EXCEPT !.status = "failed", !.by = c,
                                  !.error = "point_missing_latlon", !.plan = plan,
                                  !.years = years]
    /\ runs' = runs + 1
    /\ execLog' = Append(execLog, RunEntry(lastExec'))
    /\ ex' = ex
    /\ UNCHANGED <<utilVars, serial, sent>>

\* The run goes on to its first getOMPoint call.
Begin(c, x) ==
    /\ ex' = [ex EXCEPT ![c] = x]
    /\ UNCHANGED <<lastExec, runs, execLog, utilVars, serial, sent>>

\* executePlan({plan}) up to its geometry branch.
ExecStart(c, plan) ==
    /\ ex[c].pc = "idle" /\ fr[c].pc = "idle"
    /\ runs + Cardinality({d \in Callers : ex[d].pc # "idle"}) < MaxRuns
    /\ LET x == [IdleExec EXCEPT !.plan = plan, !.vars = PlanVars(plan),
                                 !.hist = (plan.time_mode = "historical"),
                                 !.years = PlanYears(plan),
                                 !.range = HistRange(now, PlanYears(plan)),
                                 !.i = 1, !.pc = "loop"] IN
       IF plan.geom.type = "Point"
       THEN IF PointMissing(plan.geom)
            THEN Reject(c, plan, x.years)
            ELSE Begin(c, [x EXCEPT !.pts = PointPts(plan)])
       ELSE Begin(c, [x EXCEPT !.pts = AdaptiveGrid(plan.geom.bbox),
                               !.rowsByVar = [v \in {x.vars[k] : k \in DOMAIN x.vars}
                                                 |-> <<>>]])
    /\ trace' = SelectSeq(trace, LAMBDA e : e.by # c)
    /\ upstream' = Forget(c)
    /\ UNCHANGED <<stored, calls, lastFetch, waitLog, pureVars>>

\* for (const v of vars) rowsByVar[v].push(hourly?.[v] || []), once for every
\* entry of vars; utcOffsets.push(resp?.utc_offset_seconds ?? 0).  A row and
\* an offset are written as the point whose response they come from.
RECURSIVE PushRows(_, _, _)
PushRows(rowsByVar, vs, row) ==
    IF vs = <<>> THEN rowsByVar
    ELSE PushRows([rowsByVar EXCEPT ![Head(vs)] = Append(@, row)], Tail(vs), row)

RegionArrays(x, resp) ==
    IF x.plan.geom.type = "Point" THEN x
    ELSE [x EXCEPT !.rowsByVar = PushRows(@, x.vars, [of |-> x.i, serial |-> resp.serial]),
                   !.utcOffsets = Append(@, [of |-> x.i])]

AccumulatedRetry(x, resp) ==
    [RegionArrays(x, resp) EXCEPT !.pc = "loop", !.rows = Append(@, resp),
              !.lats = Append(@, x.pts[x.i].lat),
              !.i = IF Len(x.rows) = 0 THEN @ ELSE @ + 1]

\* The row of point i is pushed and the loop goes on.
Accumulated(x, resp) ==
    [RegionArrays(x, resp) EXCEPT !.pc = "loop", !.rows = Append(@, resp),
              !.lats = Append(@, x.pts[x.i].lat), !.i = @ + 1]

\* getOMPoint(lat, lon, vars, mode, range) for point i, to its return on a hit
\* in OM_CACHE or to the first await of its fetch.
GetOMPoint(c) ==
    /\ ex[c].pc = "loop" /\ ex[c].i <= Len(ex[c].pts)
    /\ fr[c].pc = "idle"
    /\ LET x == ex[c]
           p == x.pts[x.i]
           key == OMKey(x.hist, p.lat, p.lon, x.vars, x.range)
           url == OMUrl(x.hist, p.lat, p.lon, x.vars, x.range)
           cacheHit == CacheGet(omCache, key, now) IN
       /\ omCache' = CacheEvict(omCache, key, now)
       /\ IF cacheHit # Undefined
          THEN /\ ex' = [ex EXCEPT ![c] = [Accumulated(x, cacheHit) EXCEPT !.hits = @ + 1]]
               /\ trace' = trace \o <<TraceEntry("start", c, x, TRUE), TraceEntry("end", c, x, TRUE)>>
               /\ UNCHANGED <<weaCache, fr, lastByKey, serial, upstream, sent, waitLog>>
          ELSE /\ ex' = [ex EXCEPT ![c] = [x EXCEPT !.pc = "await", !.key = key]]
               /\ trace' = Append(trace, TraceEntry("start", c, x, TRUE))
               /\ BeginFetch(c, NewFetchFrame(url, OMTtl(x.hist), OMLimiter.rl,
                                              OMLimiter.rlKey, FALSE))
    /\ UNCHANGED <<now, ticks, stored, calls, lastFetch, lastExec, runs, execLog, pureVars>>

\* getOMPoint after its fetch returned: OM_CACHE.set(key, json, ttl); return json
ExecResume(c) ==
    /\ ex[c].pc = "await" /\ fr[c].pc = "ret"
    /\ omCache' = CacheSet(omCache, ex[c].key, fr[c].val, OMTtl(ex[c].hist), now)
    /\ ex' = [ex EXCEPT ![c] = Accumulated(ex[c], fr[c].val)]
    /\ fr' = [fr EXCEPT ![c] = IdleFrame]
    /\ trace' = Append(trace, TraceEntry("end", c, ex[c], TRUE))
    /\ UNCHANGED <<now, ticks, lastByKey, weaCache, histVars, lastExec, runs, execLog, pureVars>>

OnThrownContinue(c) ==
    /\ ex[c].pc = "await" /\ fr[c].pc = "thrown"
    /\ ex' = [ex EXCEPT ![c] = Accumulated(ex[c], Undefined)]
    /\ fr' = [fr EXCEPT ![c] = IdleFrame]
    /\ trace' = Append(trace, TraceEntry("end", c, ex[c], FALSE))
    /\ UNCHANGED <<now, ticks, lastByKey, weaCache, omCache, histVars, lastExec, runs, execLog, pureVars>>

\* The fetch threw: the error leaves getOMPoint and executePlan uncaught.
OnThrown(c) ==
    /\ ex[c].pc = "await" /\ fr[c].pc = "thrown"
    /\ lastExec' = [NoExec EXCEPT !.status = "failed", !.error = "fetch_failed",
                                  !.by = c, !.plan = ex[c].plan,
                                  !.years = ex[c].years, !.hits = ex[c].hits,
                                  !.omAtFail = fr[c].omAtCall, !.omAfter = omCache]
    /\ runs' = runs + 1
    /\ execLog' = Append(execLog, RunEntry(lastExec'))
    /\ ex' = [ex EXCEPT ![c] = IdleExec]
    /\ fr' = [fr EXCEPT ![c] = IdleFrame]
    /\ trace' = Append(trace, TraceEntry("end", c, ex[c], FALSE))
    /\ UNCHANGED <<now, ticks, lastByKey, weaCache, omCache, histVars, pureVars>>

\* Every point has its row: executePlan returns its result.
ExecFinish(c) ==
    /\ ex[c].pc = "loop" /\ ex[c].i > Len(ex[c].pts)
    /\ lastExec' = [NoExec EXCEPT !.status = "ok", !.by = c, !.plan = ex[c].plan,
                                  !.years = ex[c].years, !.hits = ex[c].hits,
                                  !.result = ExecResult(ex[c])]
    /\ runs' = runs + 1
    /\ execLog' = Append(execLog, RunEntry(lastExec'))
    /\ ex' = [ex EXCEPT ![c] = IdleExec]
    /\ UNCHANGED <<utilVars, histVars, trace, pureVars>>

----------------------------------------------------------------------------
(* Initial state *)

InitUtilAt(day, t) ==
    /\ epoch = day
    /\ now = t
    /\ ticks = 0
    /\ lastByKey = EmptyMap
    /\ weaCache = EmptyMap
    /\ omCache = EmptyMap
    /\ fr = [c \in Callers |-> IdleFrame]
    /\ serial = 0
    /\ upstream = <<>>
    /\ sent = EmptyMap
    /\ stored = EmptyMap
    /\ calls = EmptyMap
    /\ lastFetch = NoFetch
    /\ waitLog = <<>>

InitUtil == InitUtilAt(0, StartNow)

InitExec ==
    /\ ex = [c \in Callers |-> IdleExec]
    /\ lastExec = NoExec
    /\ runs = 0
    /\ execLog = <<>>
    /\ trace = <<>>

NoGrid == [done |-> FALSE, pts |-> <<>>, total |-> 0]

NoPlanOut == [done |-> FALSE]

\* let memCache = null
NoMem == [set |-> FALSE, value |-> <<>>, expires |-> 0]

IdlePlan == [pc |-> "idle", top |-> "", raw |-> <<>>, held |-> NoMem, probe |-> 0,
             at |-> 0]

NoDescOut == [done |-> FALSE]

NoStatIn == [arr |-> <<>>, times |-> <<>>, rows |-> <<>>]

NoStatOut == [q |-> [done |-> FALSE], s |-> [done |-> FALSE]]

InitRegistry ==
    /\ memCache = NoMem
    /\ probes = <<>>
    /\ descOut = NoDescOut
    /\ pq = [c \in Callers |-> IdlePlan]

InitPure ==
    /\ gridIn = <<>>
    /\ gridOut = NoGrid
    /\ statIn = NoStatIn
    /\ statOut = NoStatOut
    /\ planIn = <<>>
    /\ planOut = NoPlanOut
    /\ InitRegistry

Init == InitUtil /\ InitExec /\ InitPure

----------------------------------------------------------------------------
(* RateLimiter.wait called one call after another *)

NextLimiter ==
    \/ \E key \in RLKeys : AllIdle /\ WaitCall(1, key)
    \/ \E late \in Lateness : TimerFires(1, late)
    \/ \E d \in Deltas : Idle(d)

SpecLimiter == Init /\ [][NextLimiter]_vars

(* fetchJSONWithCache called one call after another *)

DirectUrls ==
    {[endpoint |-> "forecast", lat |-> la, lon |-> 200000, hourly |-> <<"temperature_2m">>,
      start |-> NoDate, end |-> NoDate] : la \in {100000, 105000}}

\* The first URL is fetched through the limiter, the second without one.
DirectCalls ==
    {[url |-> u, rl |-> u.lat = 100000] : u \in DirectUrls}

NextCache ==
    \/ \E a \in DirectCalls :
          AllIdle /\ FetchCall(1, a.url, ForecastTTL, a.rl, "open-meteo")
    \/ \E gap \in Gaps : FetchGet(1, gap)
    \/ TimerFires(1, 0)
    \/ \E o \in Outcomes : Respond(1, o, Latency)
    \/ \E d \in Deltas : Idle(d)

SpecCache == Init /\ [][NextCache]_vars

(* Two requests served at the same time: the route handlers interleave at
   every await, on the one RateLimiter and the one cache of the process. *)

PairOutcomes == {o \in Outcomes : o.kind = "transport" \/ (o.json /\ o.status = 200)}

NextPair ==
    \/ \E c \in 1..2 : TimerFires(c, 0)
    \/ \E c \in 1..2, u \in DirectUrls :
          FetchCall(c, u, ForecastTTL, TRUE, "open-meteo")
    \/ \E c \in 1..2 : FetchGet(c, 0)
    \/ \E c \in 1..2, o \in PairOutcomes : Respond(c, o, Latency)

SpecPair == Init /\ [][NextPair]_vars

----------------------------------------------------------------------------
(* adaptiveGrid applied to a bounding box *)

\* Latitudes and longitudes with three and with four decimals, none with a
\* fourth decimal of 5 (where toFixed(3) depends on the binary expansion).
GridLats == {10 * Deg, 10 * Deg + 4, -(10 * Deg) - 6}

GridLons == {20 * Deg, 20 * Deg + 6, -(20 * Deg) - 4}

GridSpansLat == {0, Deg \div 2, 2 * Deg + 6, 12 * Deg, 14 * Deg, -(Deg \div 2)}

GridSpansLon == {0, Deg, 13 * Deg, 14 * Deg, 40 * Deg}

BBoxes == {<<la, lo, la + dla, lo + dlo>> :
              la \in GridLats, lo \in GridLons, dla \in GridSpansLat, dlo \in GridSpansLon}

InitGrid ==
    /\ InitUtil
    /\ InitExec
    /\ gridIn \in BBoxes
    /\ gridOut = NoGrid
    /\ statIn = NoStatIn
    /\ statOut = NoStatOut
    /\ planIn = <<>>
    /\ planOut = NoPlanOut
    /\ InitRegistry

GridCall ==
    /\ ~gridOut.done
    /\ gridOut' = [done |-> TRUE, pts |-> AdaptiveGrid(gridIn),
                   total |-> Len(GridWalk(gridIn))]
    /\ UNCHANGED <<gridIn, planIn, planOut, memCache, probes, descOut, pq, epoch,
                   statIn, statOut>>
    /\ UNCHANGED <<utilVars, histVars, execVars>>

SpecGrid == InitGrid /\ [][GridCall]_vars

\* C7: for every bounding box, adaptiveGrid returns at most 150 coordinates.
C7_AtMost150 == gridOut.done => Len(gridOut.pts) <= 150

\* C7 witness: a box whose walk has more than 150 points was cut to 150.
C7_Witness == gridOut.done /\ gridOut.total > 150 /\ Len(gridOut.pts) = 150

InBox(p, bbox) ==
    /\ bbox[1] <= p.lat /\ p.lat <= bbox[3]
    /\ bbox[2] <= p.lon /\ p.lon <= bbox[4]

ThreeDecimals(x) == x % 10 = 0

\* C8 as stated: every returned coordinate, after its rounding to 3 decimals,
\* lies within the box.
C8_Original ==
    gridOut.done => \A i \in DOMAIN gridOut.pts : InBox(gridOut.pts[i], gridIn)

\* C8 amended: every returned coordinate is a multiple of 0.001 and lies within
\* the box widened by half a thousandth of a degree on each side, and within
\* the box itself when the bounds of the box have at most three decimals.
C8_WithinRounding ==
    gridOut.done =>
        \A i \in DOMAIN gridOut.pts :
            /\ ThreeDecimals(gridOut.pts[i].lat) /\ ThreeDecimals(gridOut.pts[i].lon)
            /\ InBox(gridOut.pts[i], <<gridIn[1] - 5, gridIn[2] - 5, gridIn[3] + 5, gridIn[4] + 5>>)
            /\ (\A k \in 1..4 : ThreeDecimals(gridIn[k])) => InBox(gridOut.pts[i], gridIn)

\* C8 witness: a grid of several rows and columns over a box whose bounds have
\* four decimals, with a corner that rounding moved out of the box.
C8_Witness ==
    /\ gridOut.done
    /\ Len(gridOut.pts) > 4
    /\ \E i \in DOMAIN gridOut.pts : ~InBox(gridOut.pts[i], gridIn)
    /\ \E i, j \in DOMAIN gridOut.pts :
          gridOut.pts[i].lat # gridOut.pts[j].lat /\ gridOut.pts[i].lon # gridOut.pts[j].lon

----------------------------------------------------------------------------
(* executePlan called one call after another *)

Item(req, canonical) ==
    [requested |-> req, canonical |-> canonical,
     provider |-> IF canonical = "" THEN "" ELSE "open-meteo"]

Point(lat, lon) == [type |-> "Point", lat |-> lat, lon |-> lon, bbox |-> <<>>]

BBox(b) == [type |-> "BBox", lat |-> <<>>, lon |-> <<>>, bbox |-> b]

Geometries ==
    {Point(<<10 * Deg>>, <<20 * Deg>>), Point(<<>>, <<20 * Deg>>),
     BBox(<<10 * Deg, 20 * Deg, 10 * Deg, 21 * Deg>>)}

Plans ==
    {[geom |-> g, time_mode |-> tm,
      items |-> <<Item("temperature", "temperature_2m"), Item("rain", "precipitation"),
                  Item("xyzzy", "")>>,
      options |-> [years |-> <<>>, depth |-> "deep"]] :
        g \in Geometries, tm \in {"forecast", "historical"}}

\* A body that is no JSON throws as a failed transport does; SpecCache has it.
ExecOutcomes == {o \in Outcomes : o.json \/ o.kind = "transport"}

\* Between two runs: nothing, a minute (the forecast entries are at their expiry,
\* still live), or two (expired).
ExecDeltas == {ForecastTTL}

\* Called one after another, getOMPoint never finds in __WEA_CACHE__ what it
\* missed in OM_CACHE (the entry of OM_CACHE is set no earlier and with the same
\* TTL), so the has/get pair of fetchJSONWithCache takes no step here.
Next ==
    \/ \E plan \in Plans : AllIdle /\ ExecStart(1, plan)
    \/ GetOMPoint(1)
    \/ TimerFires(1, 0)
    \/ \E o \in ExecOutcomes : Respond(1, o, Latency)
    \/ ExecResume(1)
    \/ OnThrown(1)
    \/ ExecFinish(1)
    \/ \E d \in ExecDeltas : Idle(d)

Spec == Init /\ [][Next]_vars

----------------------------------------------------------------------------
(* planner.ts.  Strings are sequences of characters here, since score() looks
   inside them. *)

\* [A-Za-z0-9_] among the characters in use; every other character is \W.
WordChars ==
    {"a", "b", "c", "d", "e", "f", "i", "l", "m", "n", "o", "p", "r", "t", "y",
     "A", "B", "T", "g", "2", "_"}

LowerChar(ch) ==
    CASE ch = "A" -> "a"
      [] ch = "B" -> "b"
      [] ch = "T" -> "t"
      [] OTHER -> ch

ToLowerCaseNot(a) == a

ToLowerCase(a) == [i \in 1..Len(a) |-> LowerChar(a[i])]

\* split(/\W+/).filter(Boolean), as the set of its pieces
RECURSIVE SplitW(_, _, _)
SplitW(a, i, cur) ==
    IF i > Len(a) THEN (IF cur = <<>> THEN {} ELSE {cur})
    ELSE IF a[i] \in WordChars THEN SplitW(a, i + 1, Append(cur, a[i]))
    ELSE (IF cur = <<>> THEN {} ELSE {cur}) \cup SplitW(a, i + 1, <<>>)

TokenSet(a) == SplitW(ToLowerCase(a), 1, <<>>)

\* score(a, b), as the fraction <<inter, max(1, max(|A|, |B|))>>
Score(a, b) ==
    LET A == TokenSet(a)
        B == TokenSet(b)
    IN  <<Cardinality(A \cap B), Max(1, Max(Cardinality(A), Cardinality(B)))>>

ScoreGT(p, q) == p[1] * q[2] > q[1] * p[2]

RECURSIVE MathMax(_)
MathMax(scores) ==
    IF Len(scores) = 1 THEN scores[1]
    ELSE LET m == MathMax(Tail(scores)) IN
         IF ScoreGT(m, scores[1]) THEN m ELSE scores[1]

\* Math.max(score(req, v.id), score(req, v.label), ...aliases)
EntryScore(req, v) ==
    MathMax(<<Score(req, v.id), Score(req, v.label)>>
            \o [i \in 1..Len(v.aliases) |-> Score(req, v.aliases[i])])

GreaterOrEqual(s, bestScore) == ~ScoreGT(bestScore, s)

\* if (s > bestScore)
Greater(s, bestScore) == ScoreGT(s, bestScore)

AcceptedAtHalf(bestScore) == 2 * bestScore[1] >= bestScore[2]

\* bestScore >= 0.33
Accepted(bestScore) == 100 * bestScore[1] >= 33 * bestScore[2]

\* The best-match loop from entry i on; best is an index into variables, 0 for null.
RECURSIVE BestLoop(_, _, _, _, _)
BestLoop(req, variables, i, best, bestScore) ==
    IF i > Len(variables) THEN [best |-> best, bestScore |-> bestScore]
    ELSE LET s == EntryScore(req, variables[i]) IN
         IF Greater(s, bestScore) THEN BestLoop(req, variables, i + 1, i, s)
         ELSE BestLoop(req, variables, i + 1, best, bestScore)

UndefinedStr == <<"undefined">>

FallbackCandidates ==
    <<[provider |-> "meteostat", capability_tag |-> "station-met"],
      [provider |-> "climateserv", capability_tag |-> "precip-land-only"],
      [provider |-> "nasa-power", capability_tag |-> "radiation"],
      [provider |-> "openaq", capability_tag |-> "air-quality"],
      [provider |-> "nsidc", capability_tag |-> "sea-ice"]>>

\* One element of variables.map(...)
PlanItemEcho(req, caps, chosenMode) ==
    LET m == BestLoop(req, caps, 1, 0, <<0, 1>>) IN
    IF m.best # 0 /\ Accepted(m.bestScore)
    THEN [requested |-> req, canonical |-> req, unit |-> caps[m.best].unit,
          provider |-> "open-meteo", time_mode |-> chosenMode,
          fallback_candidates |-> <<>>]
    ELSE [requested |-> req, canonical |-> UndefinedStr, unit |-> UndefinedStr,
          provider |-> "undefined", time_mode |-> chosenMode,
          fallback_candidates |-> FallbackCandidates]

PlanItem(req, caps, chosenMode) ==
    LET m == BestLoop(req, caps, 1, 0, <<0, 1>>) IN
    IF m.best # 0 /\ Accepted(m.bestScore)
    THEN [requested |-> req, canonical |-> caps[m.best].id, unit |-> caps[m.best].unit,
          provider |-> "open-meteo", time_mode |-> chosenMode,
          fallback_candidates |-> <<>>]
    ELSE [requested |-> req, canonical |-> UndefinedStr, unit |-> UndefinedStr,
          provider |-> "undefined", time_mode |-> chosenMode,
          fallback_candidates |-> FallbackCandidates]

CLIMATE_HINTS ==
    {<<"t", "y", "p", "i", "c", "a", "l">>,
     <<"c", "l", "i", "m", "a", "t", "o", "l", "o", "g", "y">>,
     <<"n", "o", "r", "m", "a", "l">>,
     <<"l", "o", "n", "g", "-", "t", "e", "r", "m">>}

\* variables.join(" ")
RECURSIVE Join(_)
Join(variables) ==
    IF variables = <<>> THEN <<>>
    ELSE IF Len(variables) = 1 THEN variables[1]
    ELSE variables[1] \o <<" ">> \o Join(Tail(variables))

Includes(a, k) ==
    \E i \in 0..(Len(a) - Len(k)) : SubSeq(a, i + 1, i + Len(k)) = k

NoMeta == [start |-> NoDate, end |-> NoDate, years |-> 0]

\* A value of raw.capabilities: absent (or falsy), a Capabilities object, or
\* some other truthy value, which has no variables to iterate over.
Capabilities(variables, last_updated) ==
    [kind |-> "capabilities", provider |-> "open-meteo",
     last_updated |-> last_updated, variables |-> variables]

NoCaps == [kind |-> "absent", provider |-> "", last_updated |-> 0, variables |-> <<>>]

OtherCaps == [kind |-> "other", provider |-> "", last_updated |-> 0, variables |-> <<>>]

MaxYears == 50

\* PlanIn.parse(raw) succeeds
ValidPlanIn(raw) ==
    /\ raw.place_geometry.type \in {"Point", "BBox"}
    /\ raw.place_geometry.bbox # <<>> => Len(raw.place_geometry.bbox) = 4
    /\ raw.time_mode \in {"", "current", "forecast", "historical", "climate"}
    /\ raw.options.depth \in {"", "normal", "deep"}
    /\ raw.options.years # <<>> =>
           raw.options.years[1] > 0 /\ raw.options.years[1] <= MaxYears

\* What planQuery throws; planOut.caps is history, the snapshot the call used.
PlanError(e, caps) ==
    [done |-> TRUE, error |-> e, caps |-> caps, place_geometry |-> <<>>,
     time_mode |-> "", items |-> <<>>, citations |-> <<>>,
     options |-> [years |-> <<>>, depth |-> ""], meta |-> NoMeta]

MapItemsResolvedOnly(variables, caps, chosenMode) ==
    SelectSeq([i \in 1..Len(variables) |-> PlanItem(variables[i], caps, chosenMode)],
              LAMBDA item : item.canonical # UndefinedStr)

\* variables.map((req) => ...)
MapItems(variables, caps, chosenMode) ==
    [i \in 1..Len(variables) |-> PlanItem(variables[i], caps, chosenMode)]

\* new Date() at clock t, start.setUTCFullYear(end.getUTCFullYear() - years)
HistoricalWindow(t, years) ==
    [start |-> SetUTCFullYear(ISODate(t), ISODate(t).y - years),
     end |-> ISODate(t), years |-> years]

MetaAlways(chosenMode, t, years) == HistoricalWindow(t, years)

\* if (chosenMode === "historical") plan.meta = { historical_window: ... }
Meta(chosenMode, t, years) ==
    IF chosenMode = "historical" THEN HistoricalWindow(t, years) ELSE NoMeta

\* planQuery(raw) from line 50 on, at clock t, with the capabilities caps
PlanQuery(raw, caps, t) ==
    LET joined == ToLowerCase(Join(raw.variables))
        wantsClimate == \E k \in CLIMATE_HINTS : Includes(joined, k)
        time_mode == IF raw.time_mode = "" THEN "forecast" ELSE raw.time_mode
        chosenMode == IF wantsClimate THEN "historical" ELSE time_mode
        years == PlanYears(raw)
    IN  IF raw.variables # <<>> /\ caps.kind # "capabilities"
        THEN PlanError("TypeError", caps)
        ELSE [done |-> TRUE, error |-> "", caps |-> caps,
              place_geometry |-> raw.place_geometry,
              time_mode |-> chosenMode,
              items |-> MapItems(raw.variables, caps.variables, chosenMode),
              citations |-> <<"Open-Meteo (capability discovery cache)">>,
              options |-> raw.options,
              meta |-> Meta(chosenMode, t, years)]

(* capabilities.ts *)

DAY == 24 * 60 * 60 * 1000

MaxProbes == 2

Variable(id, label, aliases) ==
    [id |-> id, label |-> label, aliases |-> aliases, unit |-> <<"u">> \o id]

\* The seed descriptor, its entries written in the letters of the phrases below;
\* last_updated is the instant the module was loaded.
seed ==
    Capabilities(<<Variable(<<"a">>, <<"A">>, <<>>),
                   Variable(<<"c">>, <<"c">>, << <<"a">>, <<"b", " ", "a">> >>)>>,
                 StartNow)

\* memCache && Date.now() < memCache.expires
MemFresh(t) == memCache.set /\ t < memCache.expires

\* What refreshFromOpenMeteo returns at clock t, ok being r.ok of a probe that
\* returned and FALSE for one that threw
Refreshed(ok, t) == IF ok THEN [seed EXCEPT !.last_updated = t] ELSE seed

\* The probe caller c sends, with what memCache held when it was sent
ProbeEntry(c) ==
    [by |-> c, at |-> now, cold |-> ~memCache.set, expires |-> memCache.expires,
     settled |-> FALSE, ok |-> FALSE, settledAt |-> 0]

\* const fresh = await refreshFromOpenMeteo(): up to the await of its fetch
IssueProbe(c, top, raw) ==
    /\ Len(probes) < MaxProbes
    /\ probes' = Append(probes, ProbeEntry(c))
    /\ pq' = [pq EXCEPT ![c] = [pc |-> "probe", top |-> top, raw |-> raw,
                                held |-> memCache, probe |-> Len(probes) + 1,
                                at |-> now]]
    /\ UNCHANGED memCache

RefuseAfterRefresh(c) ==
    /\ planOut' = PlanError("ZodError", NoCaps)
    /\ probes' = Append(probes, ProbeEntry(c))
    /\ memCache' = [set |-> TRUE, value |-> seed, expires |-> now + DAY]
    /\ UNCHANGED pq

\* PlanIn.parse(raw) throws
Refuse(c) ==
    /\ planOut' = PlanError("ZodError", NoCaps)
    /\ UNCHANGED <<memCache, probes, pq>>

\* planQuery up to the await of line 48
PlanStart(c, raw) ==
    /\ pq[c].pc = "idle"
    /\ planIn' = raw
    /\ IF ~ValidPlanIn(raw)
       THEN Refuse(c)
       ELSE IF raw.capabilities.kind # "absent"
       THEN /\ planOut' = PlanQuery(raw, raw.capabilities, now)
            /\ UNCHANGED <<memCache, probes, pq>>
       ELSE IF MemFresh(now)
       THEN /\ planOut' = PlanQuery(raw, memCache.value, now)
            /\ UNCHANGED <<memCache, probes, pq>>
       ELSE /\ IssueProbe(c, "planQuery", raw)
            /\ planOut' = NoPlanOut
    /\ UNCHANGED <<descOut, gridIn, gridOut, statIn, statOut, epoch, utilVars, histVars, execVars>>

\* What describeCapabilities returned to caller c, with what memCache held
\* when the call was made
Described(c, at, value, probed, ok, held) ==
    [done |-> TRUE, by |-> c, at |-> at, value |-> value, probed |-> probed,
     ok |-> ok, held |-> held]

\* describeCapabilities called on its own (the /describe_capabilities route):
\* to its return of the held descriptor, or to the await of the probe
DescribeStart(c) ==
    /\ pq[c].pc = "idle"
    /\ IF MemFresh(now)
       THEN /\ descOut' = Described(c, now, memCache.value, FALSE, FALSE, memCache)
            /\ UNCHANGED <<memCache, probes, pq>>
       ELSE /\ IssueProbe(c, "describe", <<>>)
            /\ descOut' = NoDescOut
    /\ UNCHANGED <<planIn, planOut, gridIn, gridOut, statIn, statOut, epoch>>
    /\ UNCHANGED <<utilVars, histVars, execVars>>

ExpiryNow(t) == t

\* Date.now() + DAY
Expiry(t) == t + DAY

StoredMerged(fresh, t) ==
    [set |-> TRUE,
     value |-> IF memCache.set
               THEN [fresh EXCEPT !.last_updated = memCache.value.last_updated]
               ELSE fresh,
     expires |-> Expiry(t)]

\* memCache = { value: fresh, expires: Date.now() + DAY }
Stored(fresh, t) == [set |-> TRUE, value |-> fresh, expires |-> Expiry(t)]

\* describeCapabilities storing only what a successful probe returned
ProbeSettlesOnSuccessOnly(c, ok, d) ==
    /\ pq[c].pc = "probe"
    /\ now' = now + d
    /\ LET fresh == Refreshed(ok, now') IN
       /\ memCache' = IF ok THEN Stored(fresh, now') ELSE pq[c].held
       /\ planOut' = IF pq[c].top = "planQuery"
                     THEN PlanQuery(pq[c].raw, fresh, now') ELSE planOut
       /\ descOut' = IF pq[c].top = "describe"
                     THEN Described(c, pq[c].at, fresh, TRUE, ok, pq[c].held) ELSE descOut
    /\ probes' = [probes EXCEPT ![pq[c].probe] =
                     [@ EXCEPT !.settled = TRUE, !.ok = ok, !.settledAt = now']]
    /\ pq' = [pq EXCEPT ![c] = IdlePlan]
    /\ UNCHANGED <<planIn, gridIn, gridOut, statIn, statOut, epoch>>
    /\ UNCHANGED <<ticks, lastByKey, weaCache, omCache, fr, histVars, execVars>>

\* The probe of refreshFromOpenMeteo settles after d ms; describeCapabilities
\* stores the descriptor and planQuery, if it was the caller, goes on with it.
ProbeSettles(c, ok, d) ==
    /\ pq[c].pc = "probe"
    /\ now' = now + d
    /\ LET fresh == Refreshed(ok, now') IN
       /\ memCache' = Stored(fresh, now')
       /\ planOut' = IF pq[c].top = "planQuery"
                     THEN PlanQuery(pq[c].raw, fresh, now') ELSE planOut
       /\ descOut' = IF pq[c].top = "describe"
                     THEN Described(c, pq[c].at, fresh, TRUE, ok, pq[c].held) ELSE descOut
    /\ probes' = [probes EXCEPT ![pq[c].probe] =
                     [@ EXCEPT !.settled = TRUE, !.ok = ok, !.settledAt = now']]
    /\ pq' = [pq EXCEPT ![c] = IdlePlan]
    /\ UNCHANGED <<planIn, gridIn, gridOut, statIn, statOut, epoch>>
    /\ UNCHANGED <<ticks, lastByKey, weaCache, omCache, fr, histVars, execVars>>

(* planQuery on the phrases and catalogs below *)

MaxPhraseLen == 3
MaxCatalog == 2

PhraseChars == {"a", "b", " "}

RECURSIVE StringsUpTo(_)
StringsUpTo(n) ==
    IF n = 0 THEN {<<>>}
    ELSE LET shorter == StringsUpTo(n - 1) IN
         shorter \cup {Append(a, ch) : a \in shorter, ch \in PhraseChars}

Phrases == StringsUpTo(MaxPhraseLen)

VariablePool ==
    {Variable(<<"a">>, <<"A">>, <<>>),
     Variable(<<"c">>, <<"c">>, << <<"a">>, <<"b", " ", "a">> >>),
     Variable(<<"d">>, <<"a", " ", "c", "-", "d">>, <<>>),
     Variable(<<"e">>, <<"e">>, << <<"b", " ", "c", " ", "d", " ", "f">> >>),
     Variable(<<"f">>, <<"f">>, << <<"%">> >>)}

RECURSIVE CatalogsUpTo(_)
CatalogsUpTo(n) ==
    IF n = 0 THEN {<<>>}
    ELSE LET shorter == CatalogsUpTo(n - 1) IN
         shorter \cup {Append(cat, v) : cat \in shorter, v \in VariablePool}

Catalogs == CatalogsUpTo(MaxCatalog)

Requests ==
    {<<>>} \cup {<<req>> : req \in Phrases}
    \cup {<<<<"%">>>>, <<<<"A">>>>, <<<<"b", "-", "a">>>>,
          <<<<"a", " ", "b">>, <<"T", "y", "p", "i", "c", "a", "l">>>>}

Modes ==
    {[time_mode |-> "", options |-> [years |-> <<>>, depth |-> "deep"]],
     [time_mode |-> "historical", options |-> [years |-> <<5>>, depth |-> "normal"]]}

Raws ==
    {[capabilities |-> caps, place_geometry |-> Point(<<10 * Deg>>, <<20 * Deg>>),
      time_mode |-> m.time_mode, variables |-> variables, options |-> m.options] :
        caps \in {Capabilities(cat, 0) : cat \in Catalogs} \cup {OtherCaps},
        variables \in Requests, m \in Modes}

InitPlan ==
    /\ InitUtil
    /\ InitExec
    /\ gridIn = <<>>
    /\ gridOut = NoGrid
    /\ statIn = NoStatIn
    /\ statOut = NoStatOut
    /\ planIn \in Raws
    /\ planOut = NoPlanOut
    /\ InitRegistry

PlanCall == ~planOut.done /\ PlanStart(1, planIn)

SpecPlan == InitPlan /\ [][PlanCall]_vars

(* planQuery, and executePlan on the plan, on the calendar days, phrases and
   options below *)

WindowDates == {<<2024, 2, 29>>, <<2024, 3, 1>>, <<2023, 2, 28>>, <<2024, 12, 31>>}

WindowDays == {DaysFromCivil(d[1], d[2], d[3]) : d \in WindowDates}

\* historical_years absent, in the schema's range, and just outside it
YearOptions == {<<>>} \cup {<<n>> : n \in 0..(MaxYears + 1)}

WindowRequests ==
    {<<>>, <<<<"a">>>>,
     <<<<"T", "y", "p", "i", "c", "a", "l">>, <<"a">>>>,
     <<<<"a">>, <<"c", "l", "i", "m", "a", "t", "o", "l", "o", "g", "y">>>>,
     <<<<"a", "b", "n", "o", "r", "m", "a", "l">>>>,
     <<<<"a", " ", "l", "o", "n", "g", "-", "t", "e", "r", "m">>>>,
     <<<<"t", "y", "p">>, <<"i", "c", "a", "l">>>>}

WindowRaw(variables, time_mode, years, depth) ==
    [capabilities |-> seed, place_geometry |-> Point(<<10 * Deg>>, <<20 * Deg>>),
     time_mode |-> time_mode, variables |-> variables,
     options |-> [years |-> years, depth |-> depth]]

\* A box of two grid points
WindowBox == BBox(<<10 * Deg, 20 * Deg, 10 * Deg, 20 * Deg + Deg \div 2>>)

WindowInputs ==
    {<<day, WindowRaw(<<<<"a">>>>, "historical", years, depth)>> :
        day \in WindowDays, years \in YearOptions, depth \in {"", "normal", "deep"}}
    \cup {<<DaysFromCivil(2024, 3, 1), WindowRaw(variables, time_mode, years, depth)>> :
        variables \in WindowRequests,
        time_mode \in {"", "current", "forecast", "historical", "climate"},
        years \in {<<>>, <<5>>}, depth \in {"", "deep"}}
    \cup {<<DaysFromCivil(2024, 3, 1),
            [WindowRaw(<<<<"a">>>>, time_mode, <<>>, depth) EXCEPT
                !.place_geometry = WindowBox]>> :
        time_mode \in {"", "current", "forecast", "historical", "climate"},
        depth \in {"", "deep"}}

InitWindow ==
    /\ \E w \in WindowInputs : InitUtilAt(w[1], DayMs \div 2) /\ planIn = w[2]
    /\ InitExec
    /\ gridIn = <<>>
    /\ gridOut = NoGrid
    /\ statIn = NoStatIn
    /\ statOut = NoStatOut
    /\ planOut = NoPlanOut
    /\ InitRegistry

\* The plan a client posts to /execute_plan after /plan_query: the plan it got,
\* or, its request refused, one it makes up of the request; the route hands the
\* body to executePlan as it is.
PostedPlan ==
    [geom |-> planIn.place_geometry,
     time_mode |-> IF planOut.error = "" THEN planOut.time_mode
                   ELSE IF planIn.time_mode = "" THEN "forecast" ELSE planIn.time_mode,
     items |-> <<Item("temperature", "temperature_2m")>>,
     options |-> planIn.options]

\* A response that parses, one that parses but holds no hourly.time, and a
\* failure
WindowOutcomes ==
    {o \in Outcomes : o.kind = "response" /\ o.json /\ o.status # 302}
    \cup {[kind |-> "response", status |-> 200, json |-> TRUE, times |-> FALSE]}

NextWindow ==
    \/ PlanCall
    \/ planOut.done /\ runs = 0 /\ AllIdle /\ ExecStart(1, PostedPlan)
    \/ GetOMPoint(1)
    \/ TimerFires(1, 0)
    \/ \E o \in WindowOutcomes : Respond(1, o, Latency)
    \/ ExecResume(1)
    \/ OnThrown(1)
    \/ ExecFinish(1)

SpecWindow == InitWindow /\ [][NextWindow]_vars

(* The same, with the plan posted to /execute_plan half a day or a day after
   /plan_query returned it *)
NextLater ==
    \/ PlanCall
    \/ planOut.done /\ runs = 0 /\ Idle(DayMs \div 2)
    \/ planOut.done /\ runs = 0 /\ AllIdle /\ ExecStart(1, PostedPlan)
    \/ GetOMPoint(1)
    \/ TimerFires(1, 0)
    \/ \E o \in WindowOutcomes : Respond(1, o, Latency)
    \/ ExecResume(1)
    \/ OnThrown(1)
    \/ ExecFinish(1)

SpecLater == InitWindow /\ [][NextLater]_vars

----------------------------------------------------------------------------
(* executePlan called again on plans that ask for the same data in another
   form: coordinates that differ in the fourth decimal, on either side of
   zero; the variables in another order; two phrases that resolved to one
   canonical id, an unresolved phrase and one of another provider. *)

RepeatLong == <<Item("temperature", "temperature_2m"), Item("xyzzy", ""),
                Item("air temperature", "temperature_2m"), Item("rain", "precipitation"),
                [requested |-> "snow", canonical |-> "snow_depth", provider |-> "meteostat"]>>

RepeatAB == <<Item("temperature", "temperature_2m"), Item("rain", "precipitation")>>

RepeatBA == <<Item("rain", "precipitation"), Item("temperature", "temperature_2m")>>

RepeatPlan(geom, time_mode, items, depth) ==
    [geom |-> geom, time_mode |-> time_mode, items |-> items,
     options |-> [years |-> <<>>, depth |-> depth]]

RepeatPlans ==
    {RepeatPlan(Point(<<4>>, <<20 * Deg>>), "forecast", RepeatAB, ""),
     RepeatPlan(Point(<<-4>>, <<20 * Deg>>), "forecast", RepeatAB, ""),
     RepeatPlan(Point(<<10 * Deg>>, <<20 * Deg>>), "forecast", RepeatAB, ""),
     RepeatPlan(Point(<<10 * Deg + 4>>, <<20 * Deg>>), "forecast", RepeatBA, ""),
     RepeatPlan(Point(<<10 * Deg>>, <<20 * Deg>>), "forecast", RepeatLong, ""),
     RepeatPlan(Point(<<10 * Deg>>, <<20 * Deg>>), "historical", RepeatAB, ""),
     RepeatPlan(Point(<<10 * Deg + 4>>, <<20 * Deg>>), "historical", RepeatBA, ""),
     RepeatPlan(Point(<<10 * Deg>>, <<20 * Deg>>), "historical", RepeatAB, "deep"),
     RepeatPlan(WindowBox, "forecast", RepeatLong, ""),
     RepeatPlan(WindowBox, "historical", RepeatAB, "")}

RepeatOutcomes == {o \in Outcomes : o.json /\ o.status \in {200, 400}}

NextRepeat ==
    \/ \E plan \in RepeatPlans : AllIdle /\ ExecStart(1, plan)
    \/ GetOMPoint(1)
    \/ TimerFires(1, 0)
    \/ \E o \in RepeatOutcomes : Respond(1, o, Latency)
    \/ ExecResume(1)
    \/ OnThrown(1)
    \/ ExecFinish(1)
    \/ runs > 0 /\ Idle(ForecastTTL)

SpecRepeat == Init /\ [][NextRepeat]_vars

(* planQuery and describeCapabilities on the requests below, well-formed and
   not, with the capabilities supplied and not *)

\* Shapes the schema lets through: every field but type is optional.
RegistryGeometries ==
    {BBox(<<10 * Deg, 20 * Deg, 11 * Deg, 21 * Deg>>),
     Point(<<>>, <<20 * Deg>>), Point(<<10 * Deg>>, <<>>), Point(<<>>, <<>>),
     BBox(<<>>),
     [Point(<<10 * Deg>>, <<20 * Deg>>) EXCEPT
         !.bbox = <<10 * Deg, 20 * Deg, 11 * Deg, 21 * Deg>>],
     [BBox(<<10 * Deg, 20 * Deg, 11 * Deg, 21 * Deg>>) EXCEPT !.lat = <<10 * Deg>>]}

GoodRaw(caps, variables) ==
    [capabilities |-> caps, place_geometry |-> Point(<<10 * Deg>>, <<20 * Deg>>),
     time_mode |-> "", variables |-> variables,
     options |-> [years |-> <<>>, depth |-> ""]]

RegistryRaws ==
    {GoodRaw(caps, variables) :
        caps \in {NoCaps, OtherCaps,
                  Capabilities(<<Variable(<<"d">>, <<"a", " ", "c", "-", "d">>, <<>>)>>, 0)},
        variables \in {<<<<"A">>, <<"e">>>>, <<<<"c", " ", "d">>>>}}
    \cup {[GoodRaw(NoCaps, <<<<"A">>>>) EXCEPT !.place_geometry.type = "Circle"],
          [GoodRaw(NoCaps, <<<<"A">>>>) EXCEPT !.time_mode = "typical"],
          [GoodRaw(NoCaps, <<<<"A">>>>) EXCEPT !.options.years = <<0>>],
          [GoodRaw(NoCaps, <<<<"A">>>>) EXCEPT !.options.years = <<MaxYears + 1>>],
          [GoodRaw(NoCaps, <<<<"A">>>>) EXCEPT !.options.depth = "shallow"],
          [GoodRaw(NoCaps, <<<<"A">>>>) EXCEPT
              !.place_geometry.bbox = <<10 * Deg, 20 * Deg, 11 * Deg>>]}
    \cup {[GoodRaw(seed, <<<<"A">>>>) EXCEPT !.place_geometry = g] : g \in RegistryGeometries}

NextRegistry ==
    \/ \E raw \in RegistryRaws : PlanStart(1, raw)
    \/ DescribeStart(1)
    \/ \E ok \in BOOLEAN : ProbeSettles(1, ok, Latency)
    \/ Idle(DAY)

SpecRegistry == Init /\ [][NextRegistry]_vars

(* describeCapabilities, called directly and by planQuery, by one caller at a
   time and by two at once *)

DescribeRaws == {GoodRaw(NoCaps, <<<<"A">>>>)}

DescribeDeltas == {DAY - Latency, DAY}

NextDescribe ==
    \/ \E raw \in DescribeRaws : PlanStart(1, raw)
    \/ DescribeStart(1)
    \/ \E ok \in BOOLEAN : ProbeSettles(1, ok, Latency)
    \/ \E d \in DescribeDeltas : Idle(d)

SpecDescribe == Init /\ [][NextDescribe]_vars

NextDescribePair ==
    \/ \E c \in 1..2 : \E raw \in DescribeRaws : PlanStart(c, raw)
    \/ \E c \in 1..2 : DescribeStart(c)
    \/ \E c \in 1..2 : \E ok \in BOOLEAN : ProbeSettles(c, ok, Latency)
    \/ Idle(DAY)

SpecDescribePair == Init /\ [][NextDescribePair]_vars

----------------------------------------------------------------------------
(* aggregator.ts: quantile and summarizeHourUTC.

   A JavaScript number is a record: a finite one carries its value in
   quarters (so that 2.5 is 10), the others are NaN and the two infinities.
   The finite range ends at MaxFloat (Number.MAX_VALUE); as in IEEE 754
   round-to-nearest, an exact result within HalfUlp beyond it rounds back to
   it and one further out overflows to an infinity.  A fraction p is a number
   of quarters, 0..4.  A timestamp is its UTC hour, or -1 for one that
   new Date() cannot parse (getUTCHours() is NaN). *)

MaxFloat == 1024
HalfUlp == 32
MaxSamples == 4

Num(v) == [k |-> "num", v |-> v]
NaN == [k |-> "NaN", v |-> 0]
Infinity(sign) == [k |-> "Infinity", v |-> sign]
Null == [k |-> "null", v |-> 0]
UndefinedEntry == [k |-> "undefined", v |-> 0]

\* Number.isFinite(x)
IsFinite(x) == x.k = "num"

\* the rounding of an exact result to a double
Round(v) ==
    IF Abs(v) <= MaxFloat THEN Num(v)
    ELSE IF Abs(v) <= MaxFloat + HalfUlp THEN Num(IF v < 0 THEN -MaxFloat ELSE MaxFloat)
    ELSE Infinity(IF v < 0 THEN -1 ELSE 1)

\* x + y
Plus(x, y) ==
    IF x.k = "num" /\ y.k = "num" THEN Round(x.v + y.v)
    ELSE IF x.k = "Infinity" /\ y.k = "Infinity"
         THEN IF x.v = y.v THEN x ELSE NaN
    ELSE IF x.k = "Infinity" /\ y.k = "num" THEN x
    ELSE IF x.k = "num" /\ y.k = "Infinity" THEN y
    ELSE NaN

\* x - y
Minus(x, y) == Plus(x, IF y.k \in {"num", "Infinity"} THEN [y EXCEPT !.v = -y.v] ELSE y)

\* x * f for a fraction f of fn quarters, 0 <= f < 1
Times(x, fn) ==
    IF x.k = "num" THEN Round((x.v * fn) \div 4)
    ELSE IF x.k = "Infinity" /\ fn # 0 THEN x
    ELSE NaN

\* x / n for a count n >= 1
Over(x, n) == IF x.k = "num" THEN Num(x.v \div n) ELSE x

\* x || 0
OrZero(x) == IF x.k = "NaN" \/ x = Num(0) THEN Num(0) ELSE x

\* .sort((x, y) => x - y) on finite numbers
RECURSIVE SortAscending(_)
SortAscending(a) ==
    IF a = <<>> THEN <<>>
    ELSE LET i == CHOOSE j \in DOMAIN a : \A l \in DOMAIN a : a[j].v <= a[l].v
         IN <<a[i]>> \o SortAscending(SubSeq(a, 1, i - 1) \o SubSeq(a, i + 1, Len(a)))

\* a[i] of JavaScript, i counted from 0
At(a, i) == IF i + 1 \in DOMAIN a THEN a[i + 1] ELSE UndefinedEntry

\* function quantile(arr, p)
Quantile(arr, pn) ==
    LET a == SortAscending(SelectSeq(arr, IsFinite)) IN
    IF a = <<>> THEN NaN
    ELSE LET b == ((Len(a) - 1) * pn) \div 4
             fn == ((Len(a) - 1) * pn) % 4
         IN Plus(At(a, b), Times(OrZero(Minus(At(a, b + 1), At(a, b))), fn))

\* rows.map((r) => r[t]).filter((v) => Number.isFinite(v)), t counted from 1
ColumnVals(rows, t) ==
    SelectSeq([i \in DOMAIN rows |-> At(rows[i], t - 1)], IsFinite)

\* byHour[h] after the loop has run over the first t timestamps
RECURSIVE ByHour(_, _, _, _)
ByHour(times, rows, h, t) ==
    IF t = 0 THEN <<>>
    ELSE ByHour(times, rows, h, t - 1)
         \o (IF times[t] = h THEN ColumnVals(rows, t) ELSE <<>>)

\* a.reduce((s, x) => s + x, 0)
RECURSIVE Sum(_)
Sum(a) == IF a = <<>> THEN Num(0) ELSE Plus(Sum(SubSeq(a, 1, Len(a) - 1)), a[Len(a)])

\* export function summarizeHourUTC(times, rows): byHour[NaN] is undefined, so
\* the push of a non-empty vals for an unparsable timestamp throws
SummarizeHourUTC(times, rows) ==
    IF \E t \in DOMAIN times : times[t] = -1 /\ ColumnVals(rows, t) # <<>>
    THEN [done |-> TRUE, kind |-> "TypeError", mean |-> <<>>, iqr |-> <<>>]
    ELSE [done |-> TRUE, kind |-> "return",
          mean |-> [h \in 0..23 |->
                       LET a == ByHour(times, rows, h, Len(times)) IN
                       IF a # <<>> THEN Over(Sum(a), Len(a)) ELSE Null],
          iqr |-> [h \in 0..23 |->
                       LET a == ByHour(times, rows, h, Len(times)) IN
                       IF a # <<>> THEN Minus(Quantile(a, 3), Quantile(a, 1)) ELSE Null]]

(* quantile and summarizeHourUTC applied to arrays of up to MaxSamples
   entries: the largest and the smallest finite number, a moderate one, and
   NaN.  The matrix of summarizeHourUTC is the array cut into rows as long as
   the list of timestamps, the last row short of entries when it does not
   divide. *)
StatValues == {Num(-MaxFloat), Num(4), Num(MaxFloat), NaN}

StatArrays == UNION {[1..n -> StatValues] : n \in 0..MaxSamples}

StatTimes == {<<>>, <<0>>, <<0, 0>>, <<0, 23>>, <<23, -1>>, <<-1>>}

Chunks(arr, w) ==
    [i \in 1..((Len(arr) + w - 1) \div w) |->
        SubSeq(arr, (i - 1) * w + 1, IF i * w < Len(arr) THEN i * w ELSE Len(arr))]

InitStats ==
    /\ InitUtil
    /\ InitExec
    /\ gridIn = <<>>
    /\ gridOut = NoGrid
    /\ planIn = <<>>
    /\ planOut = NoPlanOut
    /\ InitRegistry
    /\ \E arr \in StatArrays, times \in StatTimes :
           statIn = [arr |-> arr, times |-> times,
                     rows |-> Chunks(arr, IF times = <<>> THEN 1 ELSE Len(times))]
    /\ statOut = NoStatOut

QuantileCall(pn) ==
    /\ ~statOut.q.done
    /\ statOut' = [statOut EXCEPT !.q = [done |-> TRUE, p |-> pn,
                                         value |-> Quantile(statIn.arr, pn)]]
    /\ UNCHANGED <<statIn, gridIn, gridOut, planIn, planOut, memCache, probes,
                   descOut, pq, epoch, utilVars, histVars, execVars>>

SummarizeCall ==
    /\ ~statOut.s.done
    /\ statOut' = [statOut EXCEPT !.s = SummarizeHourUTC(statIn.times, statIn.rows)]
    /\ UNCHANGED <<statIn, gridIn, gridOut, planIn, planOut, memCache, probes,
                   descOut, pq, epoch, utilVars, histVars, execVars>>

NextStats ==
    \/ \E pn \in 0..4 : QuantileCall(pn)
    \/ SummarizeCall

SpecStats == InitStats /\ [][NextStats]_vars

(* climateBlocks, the diurnal block.  Clock readings are in seconds from
   2024-03-10T00:00Z.  A timestamp string is its wall-clock reading and whether
   it ends in "Z"; the time zone of the process is its offset from UTC in
   seconds before and after one change of offset, and the instant of that
   change. *)

Stamp(wall, zoned) == [wall |-> wall, zoned |-> zoned]

Zone(before, after, change) == [before |-> before, after |-> after, change |-> change]

\* the offset of local time in zone at instant t
OffsetAt(zone, t) == IF t < zone.change THEN zone.before ELSE zone.after

\* new Date(string): a date-time without offset is local time; a local time
\* the change of offset skips or repeats is read with the offset before it
DateParse(ts, zone) ==
    IF ts.zoned THEN ts.wall
    ELSE IF ts.wall - zone.before < zone.change THEN ts.wall - zone.before
    ELSE IF ts.wall - zone.after >= zone.change THEN ts.wall - zone.after
    ELSE ts.wall - zone.before

\* Date.prototype.getHours
GetHours(t, zone) == ((t + OffsetAt(zone, t)) \div 3600) % 24

\* Date.prototype.getUTCHours
GetUTCHours(t) == (t \div 3600) % 24

\* utcOffsetsSec[i] || 0
OffsetOfRow(utcOffsetsSec, i) ==
    IF i \in DOMAIN utcOffsetsSec THEN utcOffsetsSec[i] ELSE 0

\* const ts = new Date(new Date(timesUTC[t]).getTime() + off * 1000);
\* const h = ts.getHours();
DiurnalHour(ts, off, zone) == GetHours(DateParse(ts, zone) + off, zone)

\* The cells of rows in the order of the two loops, each with its place
Cells(timesUTC, rows) ==
    [k \in 1..(Len(rows) * Len(timesUTC)) |->
        LET i == ((k - 1) \div Len(timesUTC)) + 1
            t == ((k - 1) % Len(timesUTC)) + 1
        IN  [row |-> i, step |-> t, v |-> rows[i][t]]]

\* byHourLocal when the loops are done
ByHourLocal(timesUTC, rows, utcOffsetsSec, zone) ==
    [h \in 0..23 |->
        SelectSeq(Cells(timesUTC, rows),
                  LAMBDA c : /\ IsFinite(c.v)
                             /\ DiurnalHour(timesUTC[c.step],
                                            OffsetOfRow(utcOffsetsSec, c.row), zone) = h)]

MaxRows == 2
MaxSteps == 2

\* UTC, Asia/Kolkata, and America/New_York on the day its clocks go forward
ProcessZones ==
    {Zone(0, 0, 0), Zone(19800, 19800, 0), Zone(-18000, -14400, 25200)}

\* 00:00, 02:30 and 23:00 of the day, with and without "Z"
DiurnalStamps == {Stamp(w, z) : w \in {0, 9000, 82800}, z \in BOOLEAN}

RowOffsets == {0, 3600, -18000}

SeqsUpTo(S, n) == UNION {[1..m -> S] : m \in 1..n}

\* rows of finite values, or with one value that is not
DiurnalRows(n, steps, holed) ==
    [i \in 1..n |-> [t \in 1..steps |->
        IF holed /\ i = 1 /\ t = 1 THEN NaN ELSE Num(4 * (10 * i + t))]]

InitDiurnal ==
    /\ InitUtil
    /\ InitExec
    /\ gridIn = <<>>
    /\ gridOut = NoGrid
    /\ planIn = <<>>
    /\ planOut = NoPlanOut
    /\ InitRegistry
    /\ \E timesUTC \in SeqsUpTo(DiurnalStamps, MaxSteps),
          utcOffsetsSec \in SeqsUpTo(RowOffsets, MaxRows),
          zone \in ProcessZones, short \in BOOLEAN :
           statIn = [timesUTC |-> timesUTC,
                     rows |-> DiurnalRows(Len(utcOffsetsSec), Len(timesUTC), short),
                     utcOffsetsSec |-> IF short THEN Tail(utcOffsetsSec) ELSE utcOffsetsSec,
                     zone |-> zone]
    /\ statOut = [done |-> FALSE]

ClimateBlocksCall ==
    /\ ~statOut.done
    /\ statOut' = [done |-> TRUE,
                   byHourLocal |-> ByHourLocal(statIn.timesUTC, statIn.rows,
                                               statIn.utcOffsetsSec, statIn.zone)]
    /\ UNCHANGED <<statIn, gridIn, gridOut, planIn, planOut, memCache, probes,
                   descOut, pq, epoch, utilVars, histVars, execVars>>

SpecDiurnal == InitDiurnal /\ [][ClimateBlocksCall]_vars

----------------------------------------------------------------------------
(* Properties *)

\* No entry was added to the store and none was changed.
NoGain(before, after) ==
    \A k \in DOMAIN after : k \in DOMAIN before /\ after[k] = before[k]

\* C1: for fetchJSONWithCache calls made one after another with the same URL, a
\* call made within the TTL of the response an earlier call stored issues no
\* upstream request and returns that response; a call made outside it issues
\* exactly one request; so the requests issued for a URL are as many as the
\* calls made outside the TTL (two for hit-after-store followed by a call after
\* expiry).
C1_CachedWithinTTL ==
    /\ lastFetch.outcome # "none" =>
          IF lastFetch.within
          THEN /\ lastFetch.nsent = 0
               /\ lastFetch.outcome = "hit"
               /\ lastFetch.val = lastFetch.expected
          ELSE lastFetch.nsent = 1 /\ lastFetch.outcome # "hit"
    /\ \A c \in Callers : fr[c].op = "fetch" =>
          fr[c].nsent = (IF fr[c].within \/ fr[c].pc = "sleep" THEN 0 ELSE 1)
    /\ AllIdle => \A u \in DOMAIN calls : MapGet(sent, u, 0) = calls[u].outside

\* C1 witness: a call made at the last instant of the TTL of a stored response,
\* the clock moving on between has() and get(): no request, and undefined
\* returned in place of the response.
C1_Witness ==
    /\ AllIdle
    /\ lastFetch.within /\ ~lastFetch.withinAtEnd
    /\ lastFetch.outcome = "hit" /\ lastFetch.nsent = 0
    /\ lastFetch.expected # Undefined
    /\ lastFetch.val = Undefined

SameKey(i) == {k \in DOMAIN waitLog : waitLog[k].key = waitLog[i].key}

\* C2: RateLimiter.wait(key) called N times one after another: consecutive
\* returns for a key are at least minGap apart, hence N calls take at least
\* (N-1)*minGap; a call returns without waiting only when the previous return
\* for its key is at least minGap old, however long the idle time before that.
C2_MinGapBetweenReturns ==
    \A i, j \in DOMAIN waitLog :
        (i < j /\ waitLog[i].key = waitLog[j].key) =>
            /\ waitLog[j].at - waitLog[i].at
                  >= 1000 * Cardinality({k \in SameKey(i) : i < k /\ k <= j})
            /\ ~waitLog[j].slept => waitLog[j].calledAt - waitLog[i].at >= 1000

\* C2 witness: after an idle minute one call returns at once and the next one,
\* made right after it, returns a full gap later.
C2_Witness ==
    \E i, j, k \in DOMAIN waitLog :
        /\ i < j /\ j < k
        /\ waitLog[i].key = waitLog[j].key /\ waitLog[j].key = waitLog[k].key
        /\ waitLog[j].calledAt - waitLog[i].at >= 60000
        /\ ~waitLog[j].slept
        /\ waitLog[k].calledAt = waitLog[j].at
        /\ waitLog[k].slept
        /\ waitLog[k].at - waitLog[j].at = 1000

\* C3: in region mode, once the fetch of a sampled coordinate has failed,
\* executePlan is over with the error: no fetch of a later coordinate is
\* started, no request for one is issued and no result is returned.
C3_RegionAbortsAtFailure ==
    \A k \in DOMAIN trace :
        (trace[k].ev = "end" /\ ~trace[k].ok) =>
            /\ k = Len(trace)
            /\ ex[trace[k].by].pc = "idle"
            /\ lastExec.status = "failed" /\ lastExec.error = "fetch_failed"
            /\ lastExec.result = NoResult
            /\ \A j \in DOMAIN trace : trace[j].i <= trace[k].i
            /\ \A e \in DOMAIN upstream :
                  \E j \in DOMAIN trace : /\ upstream[e].url.lat = trace[j].lat
                                          /\ upstream[e].url.lon = trace[j].lon

\* C3 witness: a region of three coordinates whose second fetch failed.
C3_Witness ==
    /\ lastExec.status = "failed"
    /\ lastExec.plan.geom.type = "BBox"
    /\ Len(AdaptiveGrid(lastExec.plan.geom.bbox)) = 3
    /\ Len(trace) = 4
    /\ trace[4].i = 2 /\ ~trace[4].ok

\* A response that is not a success (2xx), or no response at all.
FailedResponse(r) ==
    r.kind = "transport" \/ (r.kind = "response" /\ ~(r.status \in 200..299))

\* C4: when the upstream request of a fetch fails in transport or returns a
\* non-success status, the fetch throws and neither __WEA_CACHE__ nor OM_CACHE
\* has gained or changed an entry since the fetch was called.
C4_NothingCachedOnFailure ==
    /\ (lastFetch.outcome # "none" /\ FailedResponse(lastFetch.resp)) =>
          /\ lastFetch.outcome = "thrown"
          /\ NoGain(lastFetch.weaAtCall, lastFetch.weaAfter)
          /\ NoGain(lastFetch.omAtCall, lastFetch.omAfter)
    /\ \A c \in Callers : fr[c].pc = "thrown" =>
          NoGain(fr[c].weaAtCall, weaCache) /\ NoGain(fr[c].omAtCall, omCache)
    /\ lastExec.error = "fetch_failed" => NoGain(lastExec.omAtFail, lastExec.omAfter)

\* C4 witness: a request answered 302 with a JSON body: the fetch returned the
\* body and both stores hold it.
C4_Witness ==
    /\ lastFetch.outcome = "fetched" /\ lastFetch.resp.status = 302
    /\ ~NoGain(lastFetch.weaAtCall, weaCache)
    /\ ~NoGain(lastFetch.omAtCall, omCache)

\* C5: within one executePlan run every upstream request follows a wait of the
\* limiter on the key "open-meteo", and consecutive requests start at least
\* 1000 ms apart.
C5_PoliteRequests ==
    \A k \in DOMAIN upstream :
        /\ upstream[k].stamped /\ upstream[k].rlKey = "open-meteo"
        /\ k > 1 => upstream[k].at - upstream[k - 1].at >= 1000

\* C5 witness: a run that issued three requests.
C5_Witness ==
    /\ Len(upstream) = 3
    /\ upstream[2].at - upstream[1].at = 1000

CurrentPlan(c) == IF ex[c].pc # "idle" THEN ex[c].plan ELSE lastExec.plan

\* C6: in region mode the coordinates are fetched one at a time in the order
\* adaptiveGrid produced them: the trace is start 1, end 1, start 2, end 2, ...,
\* each on its coordinate, and no coordinate is started twice.
C6_SequentialInOrder ==
    \A k \in DOMAIN trace :
        LET plan == CurrentPlan(trace[k].by) IN
        /\ trace[k].ev = (IF k % 2 = 1 THEN "start" ELSE "end")
        /\ trace[k].i = (k + 1) \div 2
        /\ plan.geom.type = "BBox" =>
              /\ trace[k].i <= Len(AdaptiveGrid(plan.geom.bbox))
              /\ trace[k].lat = AdaptiveGrid(plan.geom.bbox)[trace[k].i].lat
              /\ trace[k].lon = AdaptiveGrid(plan.geom.bbox)[trace[k].i].lon
        /\ \A j \in DOMAIN trace :
              (j # k /\ trace[j].ev = "start" /\ trace[k].ev = "start") =>
                  <<trace[j].lat, trace[j].lon>> # <<trace[k].lat, trace[k].lon>>

\* C6 witness: a region run over three coordinates that returned its result.
C6_Witness ==
    /\ lastExec.status = "ok" /\ lastExec.result.mode = "region"
    /\ lastExec.result.n = 3
    /\ Len(trace) = 6 /\ Len(upstream) = 3

Names(v) == {v.id, v.label} \cup {v.aliases[k] : k \in DOMAIN v.aliases}

Resolved(item) == item.canonical # UndefinedStr

\* The item of phrase i resolves exactly when some name of some entry scores at
\* least 0.33 against the phrase; resolved, it carries an entry's id and the
\* provider; unresolved, neither, and the five fallback providers in order.
ThresholdRule(i) ==
    LET req  == planIn.variables[i]
        caps == planIn.capabilities.variables
        item == planOut.items[i]
        reached == \E k \in DOMAIN caps : \E b \in Names(caps[k]) :
                       100 * Score(req, b)[1] >= 33 * Score(req, b)[2]
    IN  /\ Resolved(item) <=> reached
        /\ Resolved(item) =>
              /\ \E k \in DOMAIN caps : item.canonical = caps[k].id
              /\ item.provider = "open-meteo"
        /\ ~Resolved(item) =>
              /\ item.provider = "undefined"
              /\ [k \in DOMAIN item.fallback_candidates |->
                     item.fallback_candidates[k].provider]
                 = <<"meteostat", "climateserv", "nasa-power", "openaq", "nsidc">>
        /\ (\A k \in DOMAIN caps : \A b \in Names(caps[k]) :
               TokenSet(req) \cap TokenSet(b) = {}) => ~Resolved(item)

\* The aliases whose token set is that of phrase i
EqualAliases(i) ==
    {a \in UNION {{v.aliases[k] : k \in DOMAIN v.aliases} :
                     v \in {planIn.capabilities.variables[k] : k \in DOMAIN planIn.capabilities.variables}} :
        TokenSet(a) = TokenSet(planIn.variables[i])}

\* C9 as stated: the threshold rule, and a phrase whose token set equals an
\* alias scores 1.0 against it and resolves.
C9_Original ==
    planOut.done =>
        \A i \in DOMAIN planOut.items :
            /\ ThresholdRule(i)
            /\ \A a \in EqualAliases(i) :
                  /\ Score(planIn.variables[i], a)[1] = Score(planIn.variables[i], a)[2]
                  /\ Resolved(planOut.items[i])

\* C9: planQuery resolves a phrase exactly when the maximum score over every
\* entry's id, label and aliases is at least 0.33, and otherwise returns it
\* unresolved with the fallback list meteostat, climateserv, nasa-power, openaq,
\* nsidc; a phrase with at least one token whose token set equals an alias
\* scores 1.0 and resolves; a phrase sharing no token with any entry is
\* unresolved.
C9_ResolvedAtThreshold ==
    planOut.done =>
        \A i \in DOMAIN planOut.items :
            /\ ThresholdRule(i)
            /\ TokenSet(planIn.variables[i]) # {} =>
                  \A a \in EqualAliases(i) :
                      /\ Score(planIn.variables[i], a)[1]
                            = Score(planIn.variables[i], a)[2]
                      /\ Resolved(planOut.items[i])

\* C9 witness: a phrase of two tokens resolved by an alias that has the same
\* tokens in the other order.
C9_Witness ==
    /\ planOut.done /\ planOut.items # <<>>
    /\ \E a \in EqualAliases(1) :
          /\ a # planIn.variables[1]
          /\ Cardinality(TokenSet(a)) = 2
          /\ Resolved(planOut.items[1])

\* The entries of the catalog with the maximum score for phrase i
Maximal(i) ==
    LET req  == planIn.variables[i]
        caps == planIn.capabilities.variables
    IN  {k \in DOMAIN caps :
            \A j \in DOMAIN caps :
                ~ScoreGT(EntryScore(req, caps[j]), EntryScore(req, caps[k]))}

\* C10: a resolved phrase is resolved to the entry that comes first in the
\* catalog's list among those with the maximum score.
C10_FirstOfTies ==
    planOut.done =>
        \A i \in DOMAIN planOut.items :
            Resolved(planOut.items[i]) =>
                planOut.items[i].canonical
                    = planIn.capabilities.variables[CHOOSE k \in Maximal(i) :
                                              \A j \in Maximal(i) : k <= j].id

\* C10 witness: two entries with different ids tie at the maximum and the
\* phrase is resolved to the first.
C10_Witness ==
    /\ planOut.done /\ planOut.items # <<>>
    /\ Resolved(planOut.items[1])
    /\ Maximal(1) = {1, 2}
    /\ planIn.capabilities.variables[1].id # planIn.capabilities.variables[2].id
    /\ planOut.items[1].canonical = planIn.capabilities.variables[1].id

\* C19: executePlan given a Point without lat or without lon throws before any
\* fetch: the run never gets past its start, and the step that throws issues
\* no request and leaves both caches and the limiter as they were.
C19_MissingCoordinates ==
    /\ [](\A c \in Callers :
             (ex[c].pc # "idle" /\ ex[c].plan.geom.type = "Point") =>
                 (ex[c].plan.geom.lat # <<>> /\ ex[c].plan.geom.lon # <<>>))
    /\ [][(runs' # runs /\ lastExec'.plan.geom.type = "Point"
              /\ (lastExec'.plan.geom.lat = <<>> \/ lastExec'.plan.geom.lon = <<>>))
            => /\ lastExec'.status = "failed"
               /\ lastExec'.error = "point_missing_latlon"
               /\ UNCHANGED <<lastByKey, weaCache, omCache, serial, sent, fr>>]_vars

\* C19 witness: a Point without lat was rejected while the caches and the
\* limiter held what an earlier run left.
C19_Witness ==
    /\ lastExec.error = "point_missing_latlon"
    /\ lastExec.plan.geom.lat = <<>> /\ lastExec.plan.geom.lon # <<>>
    /\ DOMAIN omCache # {} /\ DOMAIN weaCache # {} /\ DOMAIN lastByKey # {}
    /\ serial > 0

\* The upstream requests of caller c's current or latest run
RunRequests(c) == SelectSeq(upstream, LAMBDA e : e.by = c)

RunStarts(c) == SelectSeq(trace, LAMBDA e : e.by = c /\ e.ev = "start")

\* C20: in point mode executePlan calls getOMPoint once, with all the variables
\* together: at most one upstream request per run, none when OM_CACHE served
\* the call.
C20_OnePointFetch ==
    /\ \A c \in Callers :
          (ex[c].pc # "idle" /\ ex[c].plan.geom.type = "Point") =>
              /\ Len(RunStarts(c)) <= 1
              /\ Len(RunRequests(c)) <= 1
              /\ \A k \in DOMAIN RunRequests(c) :
                    RunRequests(c)[k].url.hourly = PlanVars(ex[c].plan)
    /\ (lastExec.status = "ok" /\ lastExec.plan.geom.type = "Point"
           /\ ex[lastExec.by].pc = "idle") =>
          /\ Len(RunStarts(lastExec.by)) = 1
          /\ Len(RunRequests(lastExec.by)) = 1 - lastExec.hits
          /\ lastExec.hits \in {0, 1}

\* C20 witness: a point run for two variables served by one request, and
\* another served from OM_CACHE with none.
C20_Witness ==
    /\ lastExec.status = "ok" /\ lastExec.plan.geom.type = "Point"
    /\ Len(PlanVars(lastExec.plan)) = 2
    /\ lastExec.hits = 1 /\ Len(RunRequests(lastExec.by)) = 0
    /\ serial = 1

(* C11: for every valid request, plan.items has the length of the variables
   list and items[i].requested = variables[i] for every i, resolved or not; an
   empty variables list gives an empty items list and no error.  A valid
   request is one that passes PlanIn.parse and whose capabilities, when
   supplied, are a Capabilities object. *)
ValidRequest(raw) == ValidPlanIn(raw) /\ raw.capabilities.kind # "other"

EmptyVariablesPlanned ==
    planOut.done /\ ValidRequest(planIn) /\ planIn.variables = <<>> /\ planOut.error = ""

TypeErrorThrown == planOut.done /\ planOut.error = "TypeError"

(* C13: the plan's time_mode is "historical" whenever the lower-cased,
   space-joined requested phrases contain one of the substrings "typical",
   "climatology", "normal", "long-term", whatever mode the caller requested;
   when none occurs it is the caller-requested mode, "forecast" when none was
   given. *)
HintWords ==
    {<<"t", "y", "p", "i", "c", "a", "l">>,
     <<"c", "l", "i", "m", "a", "t", "o", "l", "o", "g", "y">>,
     <<"n", "o", "r", "m", "a", "l">>,
     <<"l", "o", "n", "g", "-", "t", "e", "r", "m">>}

Lowered(ch) ==
    IF ch = "A" THEN "a" ELSE IF ch = "B" THEN "b" ELSE IF ch = "T" THEN "t" ELSE ch

\* The phrases of the request, lower-cased and joined by single spaces
JoinedLower(variables) ==
    LET n == IF variables = <<>> THEN 0
             ELSE Len(variables) - 1
                  + Len(variables[1])
                  + (IF Len(variables) > 1 THEN Len(variables[2]) ELSE 0) IN
    [p \in 1..n |->
        IF p <= Len(variables[1]) THEN Lowered(variables[1][p])
        ELSE IF p = Len(variables[1]) + 1 THEN " "
        ELSE Lowered(variables[2][p - Len(variables[1]) - 1])]

Hinted(variables) ==
    \E k \in HintWords :
        \E from \in 1..Len(JoinedLower(variables)) :
            /\ from + Len(k) - 1 <= Len(JoinedLower(variables))
            /\ \A j \in 1..Len(k) : JoinedLower(variables)[from + j - 1] = k[j]

Requested(raw) == IF raw.time_mode = "" THEN "forecast" ELSE raw.time_mode

Planned == planOut.done /\ planOut.error = ""

C13_TimeModeOverride ==
    (Planned /\ Len(planIn.variables) <= 2) =>
        planOut.time_mode
            = IF Hinted(planIn.variables) THEN "historical" ELSE Requested(planIn)

C13_Witness ==
    /\ Planned
    /\ planIn.time_mode = "current"
    /\ planIn.variables # <<>>
    /\ planIn.variables[1] = <<"T", "y", "p", "i", "c", "a", "l">>
    /\ planOut.time_mode = "historical"

(* C14: the number of years of the historical window is
   options.historical_years when it is given, otherwise 10 when
   options.historical_depth is "deep", otherwise 1; planQuery's window and
   executePlan's year count both follow the rule. *)
YearsRule(options) ==
    IF options.years # <<>> THEN options.years[1]
    ELSE IF options.depth = "deep" THEN 10 ELSE 1

C14_YearsOfWindow ==
    /\ (Planned /\ planOut.meta # NoMeta) =>
           planOut.meta.years = YearsRule(planIn.options)
    /\ ex[1].pc # "idle" => ex[1].years = YearsRule(ex[1].plan.options)
    /\ lastExec.status # "none" => lastExec.years = YearsRule(lastExec.plan.options)

C14_Witness ==
    /\ Planned
    /\ planIn.options = [years |-> <<5>>, depth |-> "deep"]
    /\ planOut.meta.years = 5
    /\ lastExec.status = "ok"
    /\ lastExec.plan.time_mode = "historical"
    /\ lastExec.years = 5

(* C15: a plan returned by planQuery carries meta.historical_window if and
   only if its effective time_mode, after the climate-hint override, is
   "historical". *)
C15_WindowIffHistorical ==
    Planned => (planOut.meta # NoMeta <=> planOut.time_mode = "historical")

C15_Witness ==
    /\ Planned
    /\ planIn.time_mode = "forecast"
    /\ planOut.time_mode = "historical"
    /\ planOut.meta # NoMeta
    /\ planOut.meta.years = 1

(* C16: for every years in 1..50 and every current UTC date, 29 February
   included, the derived window has end = today's UTC calendar date, start =
   the calendar date exactly `years` calendar years before it (the same month
   and day, `years` years earlier) and years = years. *)
Today == CivilFromDays(epoch + now \div DayMs)

C16_ExactYearsBefore ==
    (Planned /\ planOut.meta # NoMeta) =>
        /\ planOut.meta.end = Today
        /\ planOut.meta.start = [y |-> Today.y - planOut.meta.years,
                                 m |-> Today.m, d |-> Today.d]
        /\ planOut.meta.years = YearsRule(planIn.options)
        /\ planOut.meta.years \in 1..MaxYears

\* The same, but for a 29 February whose target year has no such day
C16_ExceptLeapDay ==
    (Planned /\ planOut.meta # NoMeta
       /\ ~(Today.m = 2 /\ Today.d = 29 /\ ~IsLeap(Today.y - planOut.meta.years))) =>
        /\ planOut.meta.end = Today
        /\ planOut.meta.start = [y |-> Today.y - planOut.meta.years,
                                 m |-> Today.m, d |-> Today.d]

C16_Witness ==
    /\ Planned
    /\ Today = [y |-> 2024, m |-> 2, d |-> 29]
    /\ planOut.meta.years = 1
    /\ planOut.meta.start = [y |-> 2023, m |-> 3, d |-> 1]

(* C17: every historical window the system derives has a year count between
   1 and 50: meta.historical_window.years of a plan planQuery returns, and
   the year count executePlan uses for the archive date range of a plan it
   accepts. *)
C17_YearsInRange ==
    /\ (Planned /\ planOut.meta # NoMeta) => planOut.meta.years \in 1..MaxYears
    /\ (ex[1].pc # "idle" /\ ex[1].hist) => ex[1].years \in 1..MaxYears
    /\ (lastExec.status = "ok" /\ lastExec.plan.time_mode = "historical") =>
           lastExec.years \in 1..MaxYears

C17_PlannerYearsInRange ==
    (Planned /\ planOut.meta # NoMeta) => planOut.meta.years \in 1..MaxYears

C17_Witness ==
    /\ planOut.done /\ planOut.error = "ZodError"
    /\ lastExec.status = "ok"
    /\ lastExec.plan.time_mode = "historical"
    /\ lastExec.years = MaxYears + 1

(* C12: in every plan planQuery returns, each item that has a canonical id
   carries the id of an entry of the capability snapshot used to build the
   plan: the snapshot supplied in the request, or else the one
   describeCapabilities returned. *)
C12_CanonicalInSnapshot ==
    Planned =>
        /\ planIn.capabilities.kind # "absent" => planOut.caps = planIn.capabilities
        /\ planIn.capabilities.kind = "absent" =>
               /\ memCache.set
               /\ planOut.caps.kind = "capabilities"
               /\ planOut.caps.variables = memCache.value.variables
        /\ \A i \in DOMAIN planOut.items :
               Resolved(planOut.items[i]) =>
                   \E k \in DOMAIN planOut.caps.variables :
                       planOut.caps.variables[k].id = planOut.items[i].canonical

C12_Witness ==
    /\ Planned
    /\ planIn.capabilities = NoCaps
    /\ Len(probes) = 1
    /\ planIn.variables = <<<<"A">>, <<"e">>>>
    /\ planOut.items[1].canonical = <<"a">>
    /\ ~Resolved(planOut.items[2])

(* C18: a request whose shape fails validation makes planQuery raise an
   error before anything else happens: no capability refresh or other
   upstream request is issued and the registry snapshot is left unchanged. *)
C18_RefusedBeforeAnything ==
    [][(/\ planIn' # <<>>
        /\ ~ValidPlanIn(planIn')
        /\ <<planIn, planOut>>' # <<planIn, planOut>>)
       => /\ planOut'.done /\ planOut'.error = "ZodError"
          /\ UNCHANGED <<memCache, probes, pq, now>>
          /\ UNCHANGED <<serial, upstream, sent, lastByKey, weaCache, omCache>>]_vars

C18_Witness ==
    /\ planOut.done /\ planOut.error = "ZodError"
    /\ planIn.options.years = <<MaxYears + 1>>
    /\ planIn.capabilities = NoCaps
    /\ memCache.set /\ ~MemFresh(now)
    /\ Len(probes) = 1

(* C21: every result executePlan returns successfully, in point or region
   mode and in any time mode, has a non-empty limitations array. *)
C21_LimitationsNonEmpty ==
    lastExec.status = "ok" => Len(lastExec.result.limitations) >= 1

C21_Witness ==
    /\ lastExec.status = "ok"
    /\ lastExec.result.mode = "region"
    /\ lastExec.plan.time_mode = "climate"
    /\ lastExec.result.limitations = <<[text |-> "region_forecast", years |-> 0]>>

(* C27: whenever executePlan succeeds on a plan whose time_mode is
   "historical", the result carries a climatologies list with exactly one
   climate block per fetched variable (point mode: over the single row;
   region mode: over the full matrix); when the time_mode is not historical
   the result carries no climatologies. *)
OneBlockPerVariable(r) ==
    /\ r.climatologies.present
    /\ Len(r.climatologies.list) = Len(r.variables)
    /\ \A k \in DOMAIN r.variables :
           /\ r.climatologies.list[k].variable = r.variables[k]
           /\ r.climatologies.list[k].rows = IF r.mode = "point" THEN 1 ELSE r.n

C27_ClimatologiesIffHistorical ==
    lastExec.status = "ok" =>
        IF lastExec.plan.time_mode = "historical"
        THEN OneBlockPerVariable(lastExec.result)
        ELSE ~lastExec.result.climatologies.present

\* The same for the runs in which some response held timestamps
C27_WhenTimes ==
    (lastExec.status = "ok"
       /\ \E url \in DOMAIN stored : stored[url].v.times) =>
        IF lastExec.plan.time_mode = "historical"
        THEN OneBlockPerVariable(lastExec.result)
        ELSE ~lastExec.result.climatologies.present

C27_Witness ==
    /\ lastExec.status = "ok"
    /\ lastExec.plan.time_mode = "historical"
    /\ lastExec.result.variables # <<>>
    /\ ~lastExec.result.climatologies.present

(* C30: every fetch made by executePlan uses the archive endpoint with the
   historical date range and a 24-hour TTL exactly when the plan's time_mode
   is "historical"; for every other time_mode it uses the forecast endpoint
   with a 60-second TTL; point and region mode alike. *)
RunPlan == IF ex[1].pc # "idle" THEN ex[1].plan ELSE lastExec.plan

C30_EndpointByMode ==
    LET hist == RunPlan.time_mode = "historical"
        ttl == IF hist THEN 24 * 60 * 60 * 1000 ELSE 60 * 1000 IN
    /\ \A n \in DOMAIN upstream :
           LET url == upstream[n].url IN
           IF hist
           THEN /\ url.endpoint = "archive"
                /\ url.end = Today
                /\ url.start = SetUTCFullYear(Today, Today.y - YearsRule(RunPlan.options))
           ELSE /\ url.endpoint = "forecast"
                /\ url.start = NoDate /\ url.end = NoDate
    /\ \A url \in DOMAIN stored : stored[url].ttl = ttl
    /\ \A url \in DOMAIN weaCache : weaCache[url].exp = stored[url].at + ttl
    /\ \A k \in DOMAIN omCache :
           /\ k.mode = IF hist THEN "historical" ELSE "forecast"
           /\ \E url \in DOMAIN stored :
                  /\ stored[url].v = omCache[k].v
                  /\ omCache[k].exp = stored[url].at + ttl

C30_Witness ==
    /\ lastExec.status = "ok"
    /\ lastExec.result.mode = "region"
    /\ lastExec.plan.time_mode = "current"
    /\ Len(upstream) = 2
    /\ Cardinality(DOMAIN omCache) = 2
    /\ \A n \in DOMAIN upstream : upstream[n].url.endpoint = "forecast"

C30_ArchiveReached ==
    /\ lastExec.status = "ok"
    /\ lastExec.result.mode = "region"
    /\ lastExec.plan.time_mode = "historical"
    /\ Len(upstream) = 2
    /\ \A n \in DOMAIN upstream : upstream[n].url.endpoint = "archive"

(* C28: every plan planQuery returns has a geometry with exactly one variant
   populated: type "Point" with both lat and lon and no bbox, or type "BBox"
   with a bbox and no lat/lon; a request that does not satisfy this is
   rejected by validation. *)
OneVariant(g) ==
    \/ g.type = "Point" /\ g.lat # <<>> /\ g.lon # <<>> /\ g.bbox = <<>>
    \/ g.type = "BBox" /\ g.bbox # <<>> /\ g.lat = <<>> /\ g.lon = <<>>

C28_OneVariantPopulated ==
    /\ Planned => OneVariant(planOut.place_geometry)
    /\ (planOut.done /\ ~OneVariant(planIn.place_geometry)) => planOut.error = "ZodError"

\* What the schema does ensure of a returned plan
C28_TypeAndTuple ==
    Planned =>
        /\ planOut.place_geometry = planIn.place_geometry
        /\ planOut.place_geometry.type \in {"Point", "BBox"}
        /\ planOut.place_geometry.bbox # <<>> => Len(planOut.place_geometry.bbox) = 4

C28_Witness ==
    /\ Planned
    /\ planOut.place_geometry.type = "Point"
    /\ planOut.place_geometry.lat = <<>>
    /\ planOut.place_geometry.bbox = <<>>

(* C22: for calls to describeCapabilities made one after another, the
   upstream probe is issued only when no snapshot is held or the held
   snapshot is 24 hours old or older: any two probes are at least 24 hours
   apart, and a call within the freshness window returns the held snapshot
   without a probe. *)
DayLong == 86400000

C22_RefreshAtMostDaily ==
    /\ \A i, j \in DOMAIN probes : i < j => probes[j].at - probes[i].at >= DayLong
    /\ \A n \in DOMAIN probes :
           IF n = 1 THEN probes[n].cold
           ELSE /\ probes[n - 1].settled
                /\ probes[n].at - probes[n - 1].settledAt >= DayLong
    /\ (descOut.done /\ descOut.held.set
          /\ descOut.at - (descOut.held.expires - DayLong) < DayLong) =>
           ~descOut.probed /\ descOut.value = descOut.held.value

C22_Witness ==
    /\ Len(probes) = 2
    /\ descOut.done /\ ~descOut.probed
    /\ descOut.at - probes[1].settledAt = DayLong - Latency
    /\ probes[2].at > descOut.at

C22_AtTheDay ==
    Len(probes) = 2 /\ probes[2].at - probes[1].settledAt = DayLong

(* C23: when the refresh probe fails (network error or non-success status),
   describeCapabilities raises nothing and returns the snapshot it held
   before the attempt, unchanged in its variable list and in its last_updated
   timestamp, also when that prior snapshot came from an earlier successful
   refresh.  With no snapshot held, the prior snapshot is the seed. *)
Prior(held) == IF held.set THEN held.value ELSE seed

C23_FailedProbeKeepsSnapshot ==
    (descOut.done /\ descOut.probed /\ ~descOut.ok) =>
        /\ descOut.value.variables = Prior(descOut.held).variables
        /\ descOut.value.last_updated = Prior(descOut.held).last_updated

C23_VariablesKept ==
    (descOut.done /\ descOut.probed /\ ~descOut.ok) =>
        descOut.value.variables = Prior(descOut.held).variables

C23_Witness ==
    /\ descOut.done /\ descOut.probed /\ ~descOut.ok
    /\ descOut.held.set
    /\ descOut.held.value.last_updated > StartNow
    /\ descOut.value.last_updated = StartNow

(* C24: two callers of describeCapabilities that both observe a cold or stale
   snapshot before either refresh completes each issue their own upstream
   probe (no in-flight de-duplication), and the snapshot held afterwards is
   wholly the result of one of the two refreshes, never a mixture. *)
Probing == {c \in 1..2 : pq[c].pc = "probe"}

ResultOf(p) ==
    [set |-> TRUE,
     value |-> [provider |-> "open-meteo", kind |-> "capabilities",
                variables |-> seed.variables,
                last_updated |-> IF p.ok THEN p.settledAt ELSE seed.last_updated],
     expires |-> p.settledAt + DayLong]

C24_OwnProbeWholeSnapshot ==
    /\ \A c \in Probing :
           /\ pq[c].probe \in DOMAIN probes
           /\ probes[pq[c].probe].by = c
           /\ ~probes[pq[c].probe].settled
    /\ Cardinality({n \in DOMAIN probes : ~probes[n].settled}) = Cardinality(Probing)
    /\ memCache.set =>
           \E n \in DOMAIN probes :
               /\ probes[n].settled
               /\ memCache = ResultOf(probes[n])
               /\ \A m \in DOMAIN probes :
                      probes[m].settled => probes[m].settledAt <= probes[n].settledAt

C24_Witness ==
    /\ Len(probes) = 2
    /\ probes[1].at = probes[2].at
    /\ probes[1].by # probes[2].by
    /\ probes[1].settled /\ probes[2].settled
    /\ probes[1].ok /\ ~probes[2].ok
    /\ probes[1].settledAt > probes[2].settledAt
    /\ memCache = ResultOf(probes[1])

(* C29: adaptiveGrid(bbox) equals the first min(150, total) points of the
   reference walk: step = 2.0 degrees if |dLat|*|dLon|*111*111 > 2,000,000,
   else 1.0 if it is > 50,000, else 0.5; latitude runs from minLat upward by
   step while lat <= maxLat, and for each latitude longitude runs from minLon
   upward by step while lon <= maxLon, points emitted row-major.  The walk is
   written in closed form: point k of it, counted from 0. *)
RefStep ==
    LET area == Mul(Abs(gridIn[3] - gridIn[1]), Abs(gridIn[4] - gridIn[2])) IN
    IF PairGT(area, <<16232, 448664>>) THEN 20000
    ELSE IF PairGT(area, <<405, 811216>>) THEN 10000 ELSE 5000

RefCount(lo, hi) == IF hi < lo THEN 0 ELSE (hi - lo) \div RefStep + 1

RefTotal == RefCount(gridIn[1], gridIn[3]) * RefCount(gridIn[2], gridIn[4])

RefPoint(k) ==
    [lat |-> gridIn[1] + (k \div RefCount(gridIn[2], gridIn[4])) * RefStep,
     lon |-> gridIn[2] + (k % RefCount(gridIn[2], gridIn[4])) * RefStep]

\* C29 as stated: the points are those of the walk
C29_Original ==
    gridOut.done =>
        /\ Len(gridOut.pts) = IF RefTotal < 150 THEN RefTotal ELSE 150
        /\ \A i \in DOMAIN gridOut.pts : gridOut.pts[i] = RefPoint(i - 1)

\* C29 amended: the points are those of the walk, each coordinate rounded to
\* the nearest thousandth of a degree (the walk itself runs on the unrounded
\* values); they are the walk's own points when the box has at most three
\* decimals.
C29_WalkRounded ==
    gridOut.done =>
        /\ Len(gridOut.pts) = IF RefTotal < 150 THEN RefTotal ELSE 150
        /\ \A i \in DOMAIN gridOut.pts :
               /\ ThreeDecimals(gridOut.pts[i].lat) /\ ThreeDecimals(gridOut.pts[i].lon)
               /\ Abs(gridOut.pts[i].lat - RefPoint(i - 1).lat) <= 5
               /\ Abs(gridOut.pts[i].lon - RefPoint(i - 1).lon) <= 5
               /\ (ThreeDecimals(gridIn[1]) /\ ThreeDecimals(gridIn[2])) =>
                      gridOut.pts[i] = RefPoint(i - 1)

C29_Witness ==
    /\ gridOut.done
    /\ RefTotal > 150 /\ Len(gridOut.pts) = 150
    /\ RefStep = 10000
    /\ gridOut.pts[150] # RefPoint(149)
    /\ gridOut.pts[150].lat > gridOut.pts[1].lat

\* a finite value of the matrix fell into bucket h
FellInto(h) ==
    \E t \in DOMAIN statIn.times, i \in DOMAIN statIn.rows :
        /\ statIn.times[t] = h
        /\ t \in DOMAIN statIn.rows[i]
        /\ statIn.rows[i][t].k = "num"

(* C25: in the output of summarizeHourUTC, for each of the 24 hour buckets
   the mean and the iqr are both null exactly when no finite value fell into
   that bucket, and are finite numbers otherwise; neither is ever NaN. *)
C25_NullOrFinite ==
    (statOut.s.done /\ statOut.s.kind = "return") =>
        \A h \in 0..23 :
            IF FellInto(h)
            THEN statOut.s.mean[h].k = "num" /\ statOut.s.iqr[h].k = "num"
            ELSE statOut.s.mean[h] = Null /\ statOut.s.iqr[h] = Null

\* the part of C25 that holds: null exactly for the buckets no finite value
\* fell into
C25_NullExactly ==
    (statOut.s.done /\ statOut.s.kind = "return") =>
        \A h \in 0..23 :
            /\ statOut.s.mean[h] = Null <=> ~FellInto(h)
            /\ statOut.s.iqr[h] = Null <=> ~FellInto(h)

\* C25 holds for a matrix whose finite values are all moderate
C25_ModerateValues ==
    (/\ statOut.s.done /\ statOut.s.kind = "return"
     /\ \A i \in DOMAIN statIn.arr : statIn.arr[i] \in {Num(4), NaN}) =>
        \A h \in 0..23 :
            FellInto(h) => statOut.s.mean[h].k = "num" /\ statOut.s.iqr[h].k = "num"

\* a bucket holding the smallest and the largest finite number has iqr NaN
C25_Witness ==
    /\ statOut.s.done /\ statOut.s.kind = "return"
    /\ statIn.times = <<0>>
    /\ statIn.arr = <<Num(MaxFloat), Num(-MaxFloat)>>
    /\ statOut.s.mean[0] = Num(0)
    /\ statOut.s.iqr[0] = NaN

(* C26: the quantile primitive returns null for every fraction p when its
   input is empty or contains no finite value. *)
C26_NullWithoutFinite ==
    (statOut.q.done /\ \A i \in DOMAIN statIn.arr : statIn.arr[i].k # "num") =>
        statOut.q.value = Null

\* what quantile returns then is NaN
C26_NaNWithoutFinite ==
    (statOut.q.done /\ \A i \in DOMAIN statIn.arr : statIn.arr[i].k # "num") =>
        statOut.q.value = NaN

C26_Witness ==
    /\ statOut.q.done
    /\ statIn.arr = <<>>
    /\ statOut.q.p = 2
    /\ statOut.q.value = NaN

\* The request getOMPoint is called with at point i of frame x
CallOf(x) ==
    [endpoint |-> IF x.hist THEN "archive" ELSE "forecast",
     lat |-> x.pts[x.i].lat, lon |-> x.pts[x.i].lon, hourly |-> x.vars,
     start |-> IF x.hist THEN x.range.start ELSE NoDate,
     end |-> IF x.hist THEN x.range.end ELSE NoDate]

\* the nearest thousandth of a degree, as a number
Nearest3(v) == CHOOSE r \in (v - 5)..(v + 5) : r % 10 = 0 /\ (Abs(r - v) < 5 \/ Abs(r) > Abs(v))

\* the same normalized signature: mode, rounded coordinates, set of variables,
\* date range
SameSignature(u, w) ==
    /\ u.endpoint = w.endpoint
    /\ Nearest3(u.lat) = Nearest3(w.lat) /\ Nearest3(u.lon) = Nearest3(w.lon)
    /\ {u.hourly[k] : k \in DOMAIN u.hourly} = {w.hourly[k] : k \in DOMAIN w.hourly}
    /\ u.start = w.start /\ u.end = w.end

\* the same, with the coordinates on the same side of zero and every variable
\* as many times in one list as in the other
SameKeyText(u, w) ==
    /\ SameSignature(u, w)
    /\ (u.lat < 0) = (w.lat < 0) /\ (u.lon < 0) = (w.lon < 0)
    /\ \A v \in {u.hourly[k] : k \in DOMAIN u.hourly} :
           Cardinality({k \in DOMAIN u.hourly : u.hourly[k] = v})
               = Cardinality({k \in DOMAIN w.hourly : w.hourly[k] = v})

\* getOMPoint is called by caller c in this step
Fetching(c) == ex[c].pc = "loop" /\ ex[c].i <= Len(ex[c].pts) /\ ex'[c] # ex[c]

\* the call returns response v at once and issues no request
ServedFromCache(c, v) ==
    /\ serial' = serial
    /\ ex'[c].pc = "loop"
    /\ ex'[c].rows = Append(ex[c].rows, v)

(* C31: two point fetches made within the TTL whose requests have the same
   normalized signature (same mode, coordinates equal after rounding to 3
   decimals, the same set of variables in any order, same date range) share
   one cache entry: the second returns the first one's response and issues no
   upstream request. *)
C31_SharedEntry ==
    [][\A c \in Callers : Fetching(c) =>
          \A u \in DOMAIN stored :
              (SameSignature(u, CallOf(ex[c])) /\ now <= stored[u].at + stored[u].ttl)
                  => ServedFromCache(c, stored[u].v)]_vars

\* what holds of C31: the entry is shared when, besides, the coordinates are on
\* the same side of zero and the variable lists are equal up to their order
C31_SharedWhenSameText ==
    [][\A c \in Callers : Fetching(c) =>
          \A u \in DOMAIN stored :
              (SameKeyText(u, CallOf(ex[c])) /\ now <= stored[u].at + stored[u].ttl)
                  => ServedFromCache(c, stored[u].v)]_vars

\* -0.0004 after 0.0004, within the TTL: a second request
C31_Witness ==
    /\ Len(execLog) = 2
    /\ execLog[1].status = "ok" /\ execLog[2].status = "ok"
    /\ execLog[1].plan.geom = Point(<<4>>, <<20 * Deg>>)
    /\ execLog[2].plan.geom = Point(<<-4>>, <<20 * Deg>>)
    /\ ticks = 0
    /\ serial = 2

\* 10.0004 in another order of the variables after 10.0, within the TTL: no
\* second request
C31_Shared ==
    /\ Len(execLog) = 2
    /\ execLog[1].status = "ok" /\ execLog[2].status = "ok"
    /\ execLog[1].plan.geom = Point(<<10 * Deg>>, <<20 * Deg>>)
    /\ execLog[2].plan.geom = Point(<<10 * Deg + 4>>, <<20 * Deg>>)
    /\ execLog[1].plan.items = RepeatAB /\ execLog[2].plan.items = RepeatBA
    /\ serial = 1

\* the region loop of frame x has pushed row k of every matrix, offset k and
\* latitude k for the k-th sampled coordinate, and nothing else
Parallel(x) ==
    /\ Len(x.lats) = x.i - 1
    /\ Len(x.utcOffsets) = Len(x.lats)
    /\ \A v \in DOMAIN x.rowsByVar : Len(x.rowsByVar[v]) = Len(x.lats)
    /\ \A k \in DOMAIN x.lats :
           /\ x.lats[k] = x.pts[k].lat
           /\ x.utcOffsets[k].of = k
           /\ \A v \in DOMAIN x.rowsByVar : x.rowsByVar[v][k].of = k

InRegionLoop(c) == ex[c].pc \in {"loop", "await"} /\ ex[c].plan.geom.type # "Point"

Repeated(vs) == \E j, k \in DOMAIN vs : j # k /\ vs[j] = vs[k]

(* C32: after every iteration of the region loop, and so at the end of a
   successful region execution over N sampled coordinates, the row matrix of
   every variable, the UTC-offset array and the latitude array all have the
   same length (N at the end), and index i of each belongs to the i-th
   sampled coordinate; the sample-count note reports that N. *)
C32_ParallelArrays ==
    /\ \A c \in Callers : InRegionLoop(c) =>
           /\ Parallel(ex[c])
           /\ DOMAIN ex[c].rowsByVar = {ex[c].vars[k] : k \in DOMAIN ex[c].vars}
           /\ ex[c].i > Len(ex[c].pts) => Len(ex[c].lats) = Len(ex[c].pts)
    /\ \A r \in DOMAIN execLog :
           (execLog[r].status = "ok" /\ execLog[r].plan.geom.type # "Point") =>
               execLog[r].result.n = Len(AdaptiveGrid(execLog[r].plan.geom.bbox))

\* what holds of C32: the arrays are parallel when no canonical id is repeated
\* in the plan, and the offsets, the latitudes and the note are right always
C32_WhenDistinct ==
    /\ \A c \in Callers : InRegionLoop(c) =>
           /\ ~Repeated(ex[c].vars) => Parallel(ex[c])
           /\ Len(ex[c].lats) = ex[c].i - 1 /\ Len(ex[c].utcOffsets) = ex[c].i - 1
           /\ ex[c].i > Len(ex[c].pts) => Len(ex[c].lats) = Len(ex[c].pts)
    /\ \A r \in DOMAIN execLog :
           (execLog[r].status = "ok" /\ execLog[r].plan.geom.type # "Point") =>
               execLog[r].result.n = Len(AdaptiveGrid(execLog[r].plan.geom.bbox))

\* two sampled coordinates, four rows for temperature_2m
C32_Witness ==
    /\ InRegionLoop(1) /\ ex[1].pc = "loop"
    /\ ex[1].i > Len(ex[1].pts)
    /\ Len(ex[1].lats) = 2
    /\ Len(ex[1].rowsByVar["temperature_2m"]) = 4
    /\ Len(ex[1].rowsByVar["precipitation"]) = 2

\* a region run over ids that are not repeated, at its end
C32_Aligned ==
    /\ InRegionLoop(1) /\ ex[1].pc = "loop"
    /\ ex[1].i > Len(ex[1].pts)
    /\ ~Repeated(ex[1].vars) /\ Len(ex[1].vars) = 2
    /\ Len(ex[1].lats) = 2

\* the distinct canonical ids of the plan's resolved items
ResolvedIds(plan) ==
    {plan.items[k].canonical : k \in {j \in DOMAIN plan.items :
        plan.items[j].canonical # "" /\ plan.items[j].provider = "open-meteo"}}

ListedOnce(vs, ids) ==
    /\ {vs[k] : k \in DOMAIN vs} = ids
    /\ Len(vs) = Cardinality(ids)

(* C35: executePlan fetches and reports the union of the plan's resolved
   canonical variables: the result has exactly one series (point) or
   aggregate (region) per distinct canonical id, also when several requested
   phrases resolve to the same id, and unresolved items (no canonical id or a
   provider other than open-meteo) contribute nothing to the upstream
   variable list or to the result. *)
C35_UnionOfResolved ==
    /\ \A r \in DOMAIN execLog : execLog[r].status = "ok" =>
           ListedOnce(execLog[r].result.variables, ResolvedIds(execLog[r].plan))
    /\ \A c \in Callers : ex[c].pc # "idle" =>
           \A k \in DOMAIN upstream : upstream[k].by = c =>
               ListedOnce(upstream[k].url.hourly, ResolvedIds(ex[c].plan))

\* what holds of C35: the ids fetched and reported are those of the resolved
\* items, one entry for every resolved item
C35_ResolvedItemsOnly ==
    /\ \A r \in DOMAIN execLog : execLog[r].status = "ok" =>
           /\ {execLog[r].result.variables[k] : k \in DOMAIN execLog[r].result.variables}
                  = ResolvedIds(execLog[r].plan)
           /\ Len(execLog[r].result.variables)
                  = Cardinality({j \in DOMAIN execLog[r].plan.items :
                        /\ execLog[r].plan.items[j].canonical # ""
                        /\ execLog[r].plan.items[j].provider = "open-meteo"})
    /\ \A c \in Callers : ex[c].pc # "idle" =>
           \A k \in DOMAIN upstream : upstream[k].by = c =>
               {upstream[k].url.hourly[j] : j \in DOMAIN upstream[k].url.hourly}
                   = ResolvedIds(ex[c].plan)

\* two phrases for temperature_2m: two series for it
C35_Witness ==
    /\ execLog # <<>>
    /\ execLog[1].status = "ok"
    /\ execLog[1].plan.items = RepeatLong
    /\ execLog[1].result.mode = "point"
    /\ execLog[1].result.variables = <<"temperature_2m", "temperature_2m", "precipitation">>

Pair(e) == <<e.result.mode, e.plan.time_mode = "historical">>

\* C34 as stated: the text is determined by the pair (point or region,
\* forecast or historical) alone
C34_Original ==
    \A i, j \in DOMAIN execLog :
        (execLog[i].status = "ok" /\ execLog[j].status = "ok"
            /\ Pair(execLog[i]) = Pair(execLog[j]))
        => execLog[i].result.limitations = execLog[j].result.limitations

(* C34, amended: the limitations text of a successful executePlan result is
   one of four templates: outside historical mode one for a point and one for
   a region; in historical mode, for point and region alike, one for a single
   year and one for more than one year, which names the number of years.  Two
   executions with the same geometry kind, mode and number of years carry the
   same text. *)
C34_ByModeAndYears ==
    \A r \in DOMAIN execLog : execLog[r].status = "ok" =>
        LET e == execLog[r]
            years == YearsRule(e.plan.options) IN
        e.result.limitations =
            << IF e.plan.time_mode = "historical"
               THEN IF years > 1 THEN [text |-> "historical_years", years |-> years]
                                 ELSE [text |-> "historical_single_year", years |-> 0]
               ELSE IF e.result.mode = "point" THEN [text |-> "point_forecast", years |-> 0]
                                               ELSE [text |-> "region_forecast", years |-> 0] >>

\* a point run over one year and a point run over ten, with two texts
C34_Witness ==
    \E i, j \in DOMAIN execLog :
        /\ execLog[i].status = "ok" /\ execLog[j].status = "ok"
        /\ Pair(execLog[i]) = <<"point", TRUE>> /\ Pair(execLog[j]) = <<"point", TRUE>>
        /\ execLog[i].result.limitations[1].text = "historical_single_year"
        /\ execLog[j].result.limitations[1] = [text |-> "historical_years", years |-> 10]

\* fetchJSONWithCache returned without issuing an upstream request
ReturnedFromCache == lastFetch.outcome = "hit" /\ lastFetch.nsent = 0

(* C36: whenever fetchJSONWithCache returns without issuing an upstream
   request, the value it returns is the value stored for that URL by an
   earlier successful fetch whose TTL has not expired; it never returns an
   absent (undefined) value as a cache hit, also when the entry's expiry
   instant passes between the check that the entry is present and the read of
   its value. *)
C36_HitIsStoredValue ==
    ReturnedFromCache =>
        /\ lastFetch.val # Undefined
        /\ lastFetch.url \in DOMAIN stored
        /\ lastFetch.val = stored[lastFetch.url].v
        /\ lastFetch.at <= stored[lastFetch.url].at + stored[lastFetch.url].ttl

\* what holds of C36: a hit whose two reads of the clock agree returns the
\* stored value, and any hit was found live by the first read
C36_WhenClockStands ==
    ReturnedFromCache =>
        /\ lastFetch.url \in DOMAIN stored
        /\ lastFetch.calledAt <= stored[lastFetch.url].at + stored[lastFetch.url].ttl
        /\ lastFetch.at = lastFetch.calledAt =>
               lastFetch.val = stored[lastFetch.url].v /\ lastFetch.val # Undefined

\* the entry expired between has and get: undefined returned, the entry deleted
C36_Witness ==
    /\ ReturnedFromCache
    /\ lastFetch.at = lastFetch.calledAt + 1
    /\ lastFetch.calledAt = stored[lastFetch.url].at + stored[lastFetch.url].ttl
    /\ lastFetch.val = Undefined
    /\ lastFetch.url \in DOMAIN lastFetch.weaAtCall
    /\ lastFetch.url \notin DOMAIN lastFetch.weaAfter

\* the upstream requests issued after a wait on the limiter
Throttled == {k \in DOMAIN upstream : upstream[k].stamped}

(* C37: for every interleaving of callers that run concurrently in the same
   process, any two upstream requests that share a throttle key start at
   least minGap apart: concurrent RateLimiter.wait calls on one key never
   return closer together than minGap. *)
C37_GapUnderConcurrency ==
    \A i, j \in Throttled :
        (i # j /\ upstream[i].rlKey = upstream[j].rlKey) =>
            Abs(upstream[j].at - upstream[i].at) >= 1000

\* what holds of C37: the returns of one caller, whose calls follow one
\* another, are minGap apart
C37_SameCaller ==
    \A i, j \in Throttled :
        (i # j /\ upstream[i].rlKey = upstream[j].rlKey /\ upstream[i].by = upstream[j].by) =>
            Abs(upstream[j].at - upstream[i].at) >= 1000

\* two callers slept on one key and returned at the same instant
C37_Witness ==
    \E i, j \in Throttled :
        /\ i < j
        /\ upstream[i].by # upstream[j].by
        /\ upstream[i].rlKey = upstream[j].rlKey
        /\ upstream[i].url # upstream[j].url
        /\ upstream[i].at = upstream[j].at
        /\ upstream[i].at > StartNow

(* C38: at most one upstream request per cache key is in flight at any time:
   when two fetches for the same key both start before either has stored its
   response, only one upstream request is issued and both return its
   result. *)
C38_OneInFlight ==
    \A c, d \in Callers :
        (c # d /\ fr[c].pc = "request" /\ fr[d].pc = "request") =>
            CacheKey(fr[c].url) # CacheKey(fr[d].url)

\* what holds of C38: a fetch that starts after the response was stored, and
\* within its TTL, issues no request
C38_AfterStore ==
    \A c \in Callers :
        (fr[c].op = "fetch" /\ fr[c].within) => fr[c].nsent = 0

\* two requests for one URL in flight, nothing stored for it yet
C38_Witness ==
    \E c, d \in Callers :
        /\ c # d
        /\ fr[c].pc = "request" /\ fr[d].pc = "request"
        /\ fr[c].url = fr[d].url
        /\ fr[c].req # fr[d].req
        /\ fr[c].url \notin DOMAIN weaCache

(* C40: after a call of describeCapabilities whose probe failed, the
   fallback snapshot (the seed) is held with an expiry 24 hours after the
   probe settled, and every probe issued after that one is issued 24 hours
   or more after it settled: no call in between issues a probe. *)
FailedProbes == {i \in DOMAIN probes : probes[i].settled /\ ~probes[i].ok}

C40_FailedRefreshNotRetried ==
    \A i \in FailedProbes :
        /\ i = Len(probes) =>
               /\ memCache.set
               /\ memCache.value = seed
               /\ memCache.expires = probes[i].settledAt + DayLong
        /\ \A j \in DOMAIN probes :
               j > i => probes[j].at >= probes[i].settledAt + DayLong

C40_Witness ==
    /\ Len(probes) = 1
    /\ 1 \in FailedProbes
    /\ descOut.done /\ ~descOut.probed
    /\ descOut.at - probes[1].settledAt = DayLong - Latency
    /\ descOut.value = seed

C40_RetriedAtTheDay ==
    /\ Len(probes) = 2
    /\ 1 \in FailedProbes
    /\ probes[2].at = probes[1].settledAt + DayLong

(* C39: for a historical plan planQuery returned and executePlan then ran,
   every request to the archive endpoint carries the start and end dates of
   the plan's meta.historical_window, and the window of the result is that
   range, whatever time passed between the two calls. *)
PlannedHistorical ==
    planOut.done /\ planOut.error = "" /\ planOut.time_mode = "historical"

PlannedWindow == [start |-> planOut.meta.start, end |-> planOut.meta.end]

ArchiveRequests == {n \in DOMAIN upstream : upstream[n].url.endpoint = "archive"}

WindowIsPlanned ==
    /\ \A n \in ArchiveRequests :
           /\ upstream[n].url.start = PlannedWindow.start
           /\ upstream[n].url.end = PlannedWindow.end
    /\ (runs = 1 /\ lastExec.status = "ok") => lastExec.result.window = <<PlannedWindow>>

C39_WindowOfPlan == PlannedHistorical => WindowIsPlanned

\* It is, when executePlan runs on the UTC day planQuery ran on
C39_OnTheSameDay ==
    (PlannedHistorical /\ ISODate(now) = planOut.meta.end) => WindowIsPlanned

C39_Witness ==
    /\ PlannedHistorical
    /\ ISODate(now) # planOut.meta.end
    /\ ArchiveRequests # {}
    /\ runs = 1 /\ lastExec.status = "ok"
    /\ lastExec.result.window # <<>>

C39_SameDayRun ==
    /\ PlannedHistorical
    /\ ISODate(now) = planOut.meta.end
    /\ ticks = 0
    /\ ArchiveRequests # {}
    /\ runs = 1 /\ lastExec.status = "ok"
    /\ lastExec.result.window = <<PlannedWindow>>

(* C33: in the diurnal block of climateBlocks the bucket that holds the value
   of row i at time step t is the hour of day of the UTC timestamp times[t]
   moved by the UTC offset of row i, whatever the time zone of the process. *)
HourOfShifted(ts, off) == GetUTCHours(ts.wall + off)

BucketsAreShiftedUTCHours ==
    \A h \in 0..23 : \A n \in DOMAIN statOut.byHourLocal[h] :
        LET c == statOut.byHourLocal[h][n]
        IN  h = HourOfShifted(statIn.timesUTC[c.step],
                              OffsetOfRow(statIn.utcOffsetsSec, c.row))

C33_DiurnalBucket == statOut.done => BucketsAreShiftedUTCHours

Unzoned == \A t \in DOMAIN statIn.timesUTC : ~statIn.timesUTC[t].zoned

\* It is, when the process runs in UTC, and for timestamps without "Z" when
\* the zone of the process keeps one offset
C33_UnderUTC ==
    (/\ statOut.done
     /\ statIn.zone.before = statIn.zone.after
     /\ statIn.zone.before = 0 \/ Unzoned) => BucketsAreShiftedUTCHours

C33_Witness ==
    /\ statOut.done
    /\ statIn.zone = Zone(-18000, -14400, 25200)
    /\ statIn.timesUTC = <<Stamp(9000, FALSE)>>
    /\ statIn.utcOffsetsSec = <<0>>
    /\ Len(statOut.byHourLocal[3]) = 1
    /\ statOut.byHourLocal[2] = <<>>

C33_ZonedInKolkata ==
    /\ statOut.done
    /\ statIn.zone = Zone(19800, 19800, 0)
    /\ statIn.timesUTC = <<Stamp(0, TRUE)>>
    /\ statIn.utcOffsetsSec = <<0>>
    /\ Len(statOut.byHourLocal[5]) = 1

====
